---- MODULE Spec2Model ----
(***************************************************************************)
(* A model of the rustic_ai message bus storage layer:                     *)
(*   - RedisStorage (messagebus/storage/redis_storage.py): inboxes kept as *)
(*     Redis sorted sets, one per key "<bus>-<client>", scored by the      *)
(*     message id;                                                         *)
(*   - StorageBackendFactory (messagebus/storage/backend_factory.py): the  *)
(*     process-wide cache of backend instances;                            *)
(*   - EnsembleManager (ensemble/ensemble_manager.py): ensembles, their    *)
(*     members and clients, and send_message.                              *)
(* Message, the id generator, the bus, the delivery loop of CallbackClient *)
(* and the three other message-bus backends are described by the written   *)
(* specification only; where a property needs them they follow that        *)
(* description.                                                            *)
(***************************************************************************)
EXTENDS Bags, FiniteSets, Integers, Sequences, TLC

VARIABLES
    redis,      \* the Redis database of one RedisStorage: key -> sorted set
    last,       \* the storage call that ran last, with its arguments and result
    batch,      \* reader scenario: the minted messages the scenario adds
    cursor,     \* reader scenario: the reader's last_read_message_id
    reads,      \* reader scenario: what the successive reads returned
    phase,      \* reader scenario: "add", "read" or "done"
    mem,        \* equivalence: the in-process backend's map
    files,      \* equivalence: the file backend's files
    rows,       \* equivalence: the relational backend's table
    rets,       \* equivalence: what each backend returned to the last read
    stores,     \* StorageBackendFactory._stores
    nextOid,    \* identity of the next backend object constructed
    calls,      \* the from_config calls so far: configuration and outcome
    gen,        \* id generator: last timestamp, sequence counter, lock holder
    clock,      \* id generator: the millisecond clock
    callers,    \* id generator: each caller's place in get_id and its locals
    issued,     \* id generator: the ids returned so far, in order of return
    stored,     \* ensemble storage: ensemble id -> the members last written
    ensembles,  \* EnsembleManager.ensembles: ensemble id -> ensemble, bus, clients
    nmembers,   \* the member ids shortuuid has handed out so far
    loops,      \* CallbackClient delivery loops: member id -> state and cursor
    handled,    \* the handler invocations so far
    sent,       \* the send_message call that ran last: arguments and outcome
    mcall,      \* the EnsembleManager call that ran last and its outcome
    estorage,   \* ensemble registry: the backend in use and what it holds
    ecall       \* ensemble registry: the call that ran last and its outcomes

vars == <<redis, last, batch, cursor, reads, phase, mem, files, rows, rets,
          stores, nextOid, calls, gen, clock, callers, issued,
          stored, ensembles, nmembers, loops, handled, sent, mcall,
          estorage, ecall>>

storeVars == <<redis, last, batch, cursor, reads, phase, mem, files, rows, rets,
               stores, nextOid, calls>>

genVars == <<gen, clock, callers, issued>>

busVars == <<stored, ensembles, nmembers, loops, handled, sent, mcall>>

registryVars == <<estorage, ecall>>

later == <<genVars, busVars, registryVars>>

-----------------------------------------------------------------------------
(* Bounds *)

MaxId == 2              \* message ids are 1..MaxId; 0 is the cursor sentinel
MaxStored == 2          \* messages held by the whole store at any time
MaxPriority == 1        \* priority ordinals are 0..MaxPriority, 0 the most urgent
MaxTime == 3            \* mint times are 1..MaxTime
MaxBatch == 3           \* messages of one reader scenario
MaxCalls == 3           \* from_config calls of one process
MaxMachine == 1         \* machine identifiers are 0..MaxMachine
MaxSeq == 1             \* the sequence counter of one millisecond is 0..MaxSeq
MaxIssued == 3          \* get_id calls of one generator
MaxSent == 2            \* send_message calls of one run

None == [none |-> TRUE]

BusIds == {"a", "a-b"}
ClientIds == {"c", "b-c"}
Senders == {"s1", "s2"}
Contents == {"Hello!"}
Ids == 1..MaxId
Cursors == 0..MaxId

-----------------------------------------------------------------------------
(* Message ids.  An id carries, from its most significant part down, the   *)
(* priority ordinal, the millisecond timestamp, the machine identifier and *)
(* the sequence counter within the millisecond.                            *)

Priorities == 0..MaxPriority
Times == 1..MaxTime

\* GemstoneGenerator(1)
MachineId == 1

\* Variant of the layout with the timestamp above the priority.
TimeFirst(priority, timestamp, machine, sequence) ==
    ((timestamp * (MaxPriority + 1) + priority) * (MaxMachine + 1) + machine)
        * (MaxSeq + 1) + sequence

\* GemstoneID.to_int
ToInt(priority, timestamp, machine, sequence) ==
    ((priority * (MaxTime + 1) + timestamp) * (MaxMachine + 1) + machine)
        * (MaxSeq + 1) + sequence

\* The id of the first call of a millisecond.
GemstoneId(priority, time) == ToInt(priority, time, MachineId, 0)

PriorityOf(id) == id \div ((MaxTime + 1) * (MaxMachine + 1) * (MaxSeq + 1))

MintedIds == {GemstoneId(p, t) : p \in Priorities, t \in Times}

-----------------------------------------------------------------------------
(* Message: the value type.  A field that may be absent holds <<>> when it *)
(* is and <<v>> when it holds v.                                           *)

RequiredFields == {"id", "sender", "content", "priority"}
OptionalFields == {"recipients", "thread_id", "in_reply_to", "topic"}

\* Message(id, sender, content, recipients=None, thread_id=None,
\*         in_reply_to=None, topic=None); the priority is the one of the id.
NewMessage(id, sender, content, recipients, thread_id, in_reply_to, topic) ==
    [id |-> id, sender |-> sender, content |-> content,
     recipients |-> recipients, priority |-> PriorityOf(id),
     thread_id |-> thread_id, in_reply_to |-> in_reply_to, topic |-> topic]

\* Message(id, sender, content)
Message(id, sender, content) ==
    NewMessage(id, sender, content, <<>>, <<>>, <<>>, <<>>)

Messages == {Message(i, s, c) : i \in Ids, s \in Senders, c \in Contents}

\* The order of two sender strings as text.
SenderRank(s) == IF s = "s1" THEN 1 ELSE 2

-----------------------------------------------------------------------------
(* Message.serialize / Message.deserialize: the text encoding, an object   *)
(* with one key for every field that is present.                           *)

DecodeError == [error |-> "DecodeError"]

serialize(m) ==
    [f \in {g \in DOMAIN m : g \in RequiredFields \/ m[g] # <<>>} |->
        IF f \in OptionalFields THEN m[f][1] ELSE m[f]]

deserialize(s) ==
    IF ~(RequiredFields \subseteq DOMAIN s) THEN DecodeError
    ELSE [f \in RequiredFields \cup OptionalFields |->
             IF f \in OptionalFields
             THEN IF f \in DOMAIN s THEN <<s[f]>> ELSE <<>>
             ELSE s[f]]

\* Text order of two encodings (Redis orders equal scores by member).
MemberLess(s, t) ==
    \/ s.id < t.id
    \/ s.id = t.id /\ SenderRank(s.sender) < SenderRank(t.sender)

-----------------------------------------------------------------------------
(* The Redis commands RedisStorage uses.  A sorted set is the sequence of  *)
(* its entries [member, score] in Redis' order: by score, then by member.  *)
(* A key that holds nothing is the empty sorted set.                       *)

EntryLess(e, f) ==
    \/ e.score < f.score
    \/ e.score = f.score /\ MemberLess(e.member, f.member)

RECURSIVE Without(_, _)
Without(zset, member) ==
    IF zset = <<>> THEN <<>>
    ELSE IF Head(zset).member = member THEN Without(Tail(zset), member)
    ELSE <<Head(zset)>> \o Without(Tail(zset), member)

\* Variant of ZREM that removes nothing.
ZRemNone(zset, member) == zset

\* ZREM key member
ZRem(zset, member) == Without(zset, member)

RECURSIVE InsertSorted(_, _)
InsertSorted(zset, e) ==
    IF zset = <<>> THEN <<e>>
    ELSE IF EntryLess(e, Head(zset)) THEN <<e>> \o zset
    ELSE <<Head(zset)>> \o InsertSorted(Tail(zset), e)

\* Variant of ZADD that puts the entry last instead of placing it by score.
ZAddAppend(zset, member, score) ==
    Without(zset, member) \o <<[member |-> member, score |-> score]>>

\* ZADD key score member: a member already present takes the new score.  The
\* score is the message id, held exactly.
ZAdd(zset, member, score) ==
    InsertSorted(Without(zset, member), [member |-> member, score |-> score])

\* ZRANGE key 0 0
ZRangeFirst(zset) == IF zset = <<>> THEN <<>> ELSE <<Head(zset).member>>

\* ZRANGE key 0 -1
ZRangeAll(zset) == [i \in 1..Len(zset) |-> zset[i].member]

-----------------------------------------------------------------------------
(* RedisStorage *)

\* _get_inbox_id: f"{message_bus_id}-{client_id}"
InboxId(bus, client) == bus \o "-" \o client

InboxKeys == {InboxId(b, c) : b \in BusIds, c \in ClientIds}

Inbox(db, key) == IF key \in DOMAIN db THEN db[key] ELSE <<>>

\* Variant of add_message_to_inbox that stores id, sender and content only.
AddRequiredOnly(db, bus, client, m) ==
    LET key == InboxId(bus, client)
    IN  [db EXCEPT ![key] = ZAdd(Inbox(db, key),
                                 serialize(Message(m.id, m.sender, m.content)),
                                 m.id)]

\* Variant of add_message_to_inbox that writes into the inbox of the sender.
AddToSender(db, bus, client, m) ==
    LET key == InboxId(bus, m.sender)
    IN  [db EXCEPT ![key] = ZAdd(Inbox(db, key), serialize(m), m.id)]

\* add_message_to_inbox: zadd(key, {message.serialize(): message.id})
AddToInbox(db, bus, client, m) ==
    LET key == InboxId(bus, client)
    IN  [db EXCEPT ![key] = ZAdd(Inbox(db, key), serialize(m), m.id)]

\* Variant of remove_inbox that leaves the key in place.
DeleteNothing(db, bus, client) == db

\* remove_inbox: delete(key)
DeleteInbox(db, bus, client) ==
    [db EXCEPT ![InboxId(bus, client)] = <<>>]

\* Variant of get_next_unread_message that passes over the front entries
\* whose id equals last_read_message_id without removing them.
RECURSIVE SkipKeep(_, _)
SkipKeep(zset, lastRead) ==
    LET data == ZRangeFirst(zset)
    IN  IF data = <<>> THEN [ret |-> None, zset |-> zset]
        ELSE LET message == deserialize(data[1])
             IN  IF message.id = lastRead
                 THEN [ret |-> SkipKeep(Tail(zset), lastRead).ret, zset |-> zset]
                 ELSE [ret |-> message, zset |-> zset]

\* Variant with "if" for "while": at most one front entry is removed.
SkipOnce(zset, lastRead) ==
    LET data == ZRangeFirst(zset)
    IN  IF data = <<>> THEN [ret |-> None, zset |-> zset]
        ELSE LET message == deserialize(data[1])
             IN  IF message.id = lastRead
                 THEN LET rest == ZRem(zset, serialize(message))
                      IN  [ret |-> IF rest = <<>> THEN None
                                   ELSE deserialize(ZRangeFirst(rest)[1]),
                           zset |-> rest]
                 ELSE [ret |-> message, zset |-> zset]

\* Variant that also removes the message it returns.
PopFront(zset, lastRead) ==
    LET r == SkipOnce(zset, lastRead)
    IN  IF r.ret = None THEN r
        ELSE [ret |-> r.ret, zset |-> ZRem(r.zset, serialize(r.ret))]

\* Variant that removes the front entries up to last_read_message_id, those
\* with a lower id included.
RECURSIVE RemoveUpTo(_, _)
RemoveUpTo(zset, lastRead) ==
    LET data == ZRangeFirst(zset)
    IN  IF data = <<>> THEN [ret |-> None, zset |-> zset]
        ELSE LET message == deserialize(data[1])
             IN  IF message.id <= lastRead
                 THEN RemoveUpTo(ZRem(zset, serialize(message)), lastRead)
                 ELSE [ret |-> message, zset |-> zset]

\* get_next_unread_message: the read of the front entry and the loop that
\* removes it while its id equals last_read_message_id.  The result is the
\* returned message (or None) and the sorted set the call leaves behind.
RECURSIVE GetNextUnread(_, _)
GetNextUnread(zset, lastRead) ==
    LET data == ZRangeFirst(zset)
    IN  IF data = <<>> THEN [ret |-> None, zset |-> zset]
        ELSE LET message == deserialize(data[1])
             IN  IF message.id = lastRead
                 THEN GetNextUnread(ZRem(zset, serialize(message)), lastRead)
                 ELSE [ret |-> message, zset |-> zset]

\* Variant of the scan that matches on the id alone.
RECURSIVE FirstWithId(_, _, _)
FirstWithId(members, sender, id) ==
    IF members = <<>> THEN <<>>
    ELSE LET message == deserialize(Head(members))
         IN  IF message.id = id
             THEN <<Head(members)>>
             ELSE FirstWithId(Tail(members), sender, id)

\* remove_received_message, one recipient: the scan of the inbox for the
\* first entry with this sender and id, which is removed.
RECURSIVE FirstMatch(_, _, _)
FirstMatch(members, sender, id) ==
    IF members = <<>> THEN <<>>
    ELSE LET message == deserialize(Head(members))
         IN  IF message.sender = sender /\ message.id = id
             THEN <<Head(members)>>
             ELSE FirstMatch(Tail(members), sender, id)

RemoveFromInbox(zset, sender, id) ==
    LET hit == FirstMatch(ZRangeAll(zset), sender, id)
    IN  IF hit = <<>> THEN zset ELSE ZRem(zset, hit[1])

\* remove_received_message: the loop over recipient_ids.
RECURSIVE RemoveReceived(_, _, _, _, _)
RemoveReceived(db, bus, sender, recipients, id) ==
    IF recipients = <<>> THEN db
    ELSE LET key == InboxId(bus, Head(recipients))
             db1 == [db EXCEPT ![key] = RemoveFromInbox(Inbox(db, key), sender, id)]
         IN  RemoveReceived(db1, bus, sender, Tail(recipients), id)

-----------------------------------------------------------------------------
(* The storage interface of one RedisStorage, called in any order with any *)
(* arguments.                                                              *)

\* recipient_ids: the lists of distinct clients
RecipientLists ==
    {<<c>> : c \in ClientIds}
        \cup {q \in ClientIds \X ClientIds : q[1] # q[2]}

RECURSIVE SumLen(_, _)
SumLen(db, keys) ==
    IF keys = {} THEN 0
    ELSE LET k == CHOOSE x \in keys : TRUE
         IN  Len(db[k]) + SumLen(db, keys \ {k})

TotalStored(db) == SumLen(db, DOMAIN db)

\* The record of a call: its name and arguments, what it returned, how many
\* entries the inboxes it names held when it started, and how many passes
\* its loop has made.
NoCall == [op |-> "none", bus |-> "", client |-> "", recipients |-> <<>>,
           sender |-> "", id |-> 0, msg |-> None, ret |-> None, held |-> 0,
           passes |-> 0]

Range(q) == {q[i] : i \in DOMAIN q}

\* The keys of the inboxes a call names.
TargetKeys(call) ==
    IF call.op = "remove_received_message"
    THEN {InboxId(call.bus, r) : r \in Range(call.recipients)}
    ELSE IF call.op = "none" THEN {}
    ELSE {InboxId(call.bus, call.client)}

Held(db, keys) == SumLen(db, keys \cap DOMAIN db)

EmptyRedis == [k \in InboxKeys |-> <<>>]

ScenarioIdle ==
    /\ batch = {} /\ cursor = 0 /\ reads = <<>> /\ phase = "idle"

EquivIdle ==
    /\ mem = <<>> /\ files = <<>> /\ rows = {} /\ rets = <<>>

FactoryIdle ==
    /\ stores = <<>> /\ nextOid = 1 /\ calls = <<>>

Callers == {"t1", "t2"}

IdleCaller == [pc |-> "idle", priority |-> 0, timestamp |-> 0, sequence |-> 0]

NewGenerator == [last_timestamp |-> 0, sequence |-> 0, lock |-> "free"]

GeneratorIdle ==
    /\ gen = NewGenerator /\ clock = 1
    /\ callers = [c \in Callers |-> IdleCaller] /\ issued = <<>>

BusIdle ==
    /\ stored = <<>> /\ ensembles = <<>> /\ nmembers = 0
    /\ loops = <<>> /\ handled = <<>> /\ sent = <<>> /\ mcall = <<>>

RegistryIdle == estorage = <<>> /\ ecall = <<>>

LaterIdle == GeneratorIdle /\ BusIdle /\ RegistryIdle

Init ==
    /\ redis = EmptyRedis
    /\ last = NoCall
    /\ ScenarioIdle /\ EquivIdle /\ FactoryIdle
    /\ LaterIdle

others == <<later, batch, cursor, reads, phase, mem, files, rows, rets,
            stores, nextOid, calls>>

\* create_inbox: Redis creates keys on the fly, nothing is done.
CreateInbox(bus, client) ==
    /\ redis' = redis
    /\ last' = [NoCall EXCEPT !.op = "create_inbox", !.bus = bus, !.client = client,
                              !.held = Held(redis, {InboxId(bus, client)})]
    /\ UNCHANGED others

RemoveInbox(bus, client) ==
    /\ redis' = DeleteInbox(redis, bus, client)
    /\ last' = [NoCall EXCEPT !.op = "remove_inbox", !.bus = bus, !.client = client,
                              !.held = Held(redis, {InboxId(bus, client)})]
    /\ UNCHANGED others

AddMessageToInbox(bus, client, m) ==
    /\ TotalStored(redis) < MaxStored
    /\ redis' = AddToInbox(redis, bus, client, m)
    /\ last' = [NoCall EXCEPT !.op = "add_message_to_inbox", !.bus = bus,
                              !.client = client, !.msg = m,
                              !.held = Held(redis, {InboxId(bus, client)})]
    /\ UNCHANGED others

GetNextUnreadMessage(bus, client, lastRead) ==
    LET key == InboxId(bus, client)
        r == GetNextUnread(Inbox(redis, key), lastRead)
    IN  /\ redis' = [redis EXCEPT ![key] = r.zset]
        /\ last' = [NoCall EXCEPT !.op = "get_next_unread_message", !.bus = bus,
                                  !.client = client, !.id = lastRead, !.ret = r.ret,
                                  !.held = Held(redis, {key})]
        /\ UNCHANGED others

RemoveReceivedMessage(bus, sender, recipients, id) ==
    /\ redis' = RemoveReceived(redis, bus, sender, recipients, id)
    /\ last' = [NoCall EXCEPT !.op = "remove_received_message", !.bus = bus,
                              !.sender = sender, !.recipients = recipients, !.id = id,
                              !.held = Held(redis, {InboxId(bus, r) : r \in Range(recipients)})]
    /\ UNCHANGED others

Next ==
    \/ \E b \in BusIds, c \in ClientIds : CreateInbox(b, c)
    \/ \E b \in BusIds, c \in ClientIds : RemoveInbox(b, c)
    \/ \E b \in BusIds, c \in ClientIds, m \in Messages : AddMessageToInbox(b, c, m)
    \/ \E b \in BusIds, c \in ClientIds, n \in Cursors : GetNextUnreadMessage(b, c, n)
    \/ \E b \in BusIds, s \in Senders, rs \in RecipientLists, n \in Ids :
          RemoveReceivedMessage(b, s, rs, n)

Spec == Init /\ [][Next]_vars

-----------------------------------------------------------------------------
(* Minted messages *)

Minted(id, sender) == Message(id, sender, "Hello!")

\* The sets of at most n messages minted by one sender: no two share an id.
Batches(n) ==
    {{Minted(i, s) : i \in I} :
        I \in {J \in SUBSET MintedIds : J # {} /\ Cardinality(J) <= n},
        s \in Senders}

-----------------------------------------------------------------------------
(* The reader scenario of the backend contract tests: a batch of minted    *)
(* messages is added to one empty inbox, in any order, and a reader then   *)
(* calls get_next_unread_message, first with cursor 0 and then with the id *)
(* of the message the previous call returned, until a call returns empty.  *)

ScenarioBus == "a"
ScenarioClient == "c"
ScenarioKey == InboxId(ScenarioBus, ScenarioClient)

EntryMessages(zset) == {deserialize(zset[i].member) : i \in DOMAIN zset}

InitRead ==
    /\ redis = EmptyRedis
    /\ last = NoCall
    /\ batch \in Batches(MaxBatch)
    /\ cursor = 0
    /\ reads = <<>>
    /\ phase = "add"
    /\ EquivIdle /\ FactoryIdle
    /\ LaterIdle

ScenarioAdd ==
    /\ phase = "add"
    /\ \E m \in batch \ EntryMessages(redis[ScenarioKey]) :
          /\ redis' = AddToInbox(redis, ScenarioBus, ScenarioClient, m)
          /\ phase' = IF batch \subseteq EntryMessages(redis'[ScenarioKey])
                      THEN "read" ELSE "add"
    /\ UNCHANGED <<later, last, batch, cursor, reads, mem, files, rows, rets,
                   stores, nextOid, calls>>

ScenarioRead ==
    /\ phase = "read"
    /\ LET r == GetNextUnread(redis[ScenarioKey], cursor)
       IN  /\ redis' = [redis EXCEPT ![ScenarioKey] = r.zset]
           /\ reads' = Append(reads, r.ret)
           /\ cursor' = IF r.ret = None THEN cursor ELSE r.ret.id
           /\ phase' = IF r.ret = None THEN "done" ELSE "read"
    /\ UNCHANGED <<later, last, batch, mem, files, rows, rets, stores, nextOid, calls>>

NextRead == ScenarioAdd \/ ScenarioRead

SpecRead == InitRead /\ [][NextRead]_vars

-----------------------------------------------------------------------------
(* The same scenario with one message of any shape: every optional field   *)
(* absent or present, the recipient list empty or not.                     *)

Optional(S) == {<<>>} \cup {<<x>> : x \in S}

AnyRecipients == {<<>>, <<"c">>, <<"c", "b-c">>}

AnyMessages ==
    {NewMessage(GemstoneId(p, 1), s, "Hello!", r, t, i, o) :
        p \in Priorities, s \in Senders, r \in Optional(AnyRecipients),
        t \in Optional({0, 1}), i \in Optional({GemstoneId(0, 1)}),
        o \in Optional({"news"})}

InitWire ==
    /\ redis = EmptyRedis
    /\ last = NoCall
    /\ batch \in {{m} : m \in AnyMessages}
    /\ cursor = 0
    /\ reads = <<>>
    /\ phase = "add"
    /\ EquivIdle /\ FactoryIdle
    /\ LaterIdle

SpecWire == InitWire /\ [][NextRead]_vars

-----------------------------------------------------------------------------
(* A reader whose reads interleave with the arrival of messages: the       *)
(* messages of a batch are added to the inbox one by one, at any time, and *)
(* the reader calls get_next_unread_message with cursor 0 first and with   *)
(* the id of the message it received last afterwards.                      *)

Received == {reads[i] : i \in DOMAIN reads}

InitArrivals ==
    /\ redis = EmptyRedis
    /\ last = NoCall
    /\ batch \in Batches(MaxBatch)
    /\ cursor = 0
    /\ reads = <<>>
    /\ phase = "mixed"
    /\ EquivIdle /\ FactoryIdle
    /\ LaterIdle

\* add_message_to_inbox of a message of the batch that was not added yet.
Arrive ==
    /\ phase = "mixed"
    /\ \E m \in batch \ (EntryMessages(redis[ScenarioKey]) \cup Received) :
          redis' = AddToInbox(redis, ScenarioBus, ScenarioClient, m)
    /\ UNCHANGED <<later, last, batch, cursor, reads, phase, mem, files, rows,
                   rets, stores, nextOid, calls>>

\* get_next_unread_message with the reader's cursor; a message received
\* becomes the cursor.
Receive ==
    /\ phase = "mixed"
    /\ Len(reads) < 2 * MaxBatch
    /\ LET r == GetNextUnread(redis[ScenarioKey], cursor)
       IN  /\ redis' = [redis EXCEPT ![ScenarioKey] = r.zset]
           /\ reads' = IF r.ret = None THEN reads ELSE Append(reads, r.ret)
           /\ cursor' = IF r.ret = None THEN cursor ELSE r.ret.id
    /\ UNCHANGED <<later, last, batch, phase, mem, files, rows, rets, stores,
                   nextOid, calls>>

NextArrivals == Arrive \/ Receive

SpecArrivals == InitArrivals /\ [][NextArrivals]_vars

-----------------------------------------------------------------------------
(* get_next_unread_message statement by statement, on one inbox that other *)
(* processes write to only between two calls.  The call in progress is     *)
(* held in last: its cursor, the message it looks at, the number of        *)
(* entries it found and the passes of its loop so far.                     *)

InitLoop ==
    /\ redis = EmptyRedis
    /\ last = NoCall
    /\ batch = {} /\ cursor = 0 /\ reads = <<>>
    /\ phase = "out"
    /\ EquivIdle /\ FactoryIdle
    /\ LaterIdle

loopFrame == <<later, batch, cursor, reads, mem, files, rows, rets, stores,
               nextOid, calls>>

\* add_message_to_inbox while no read is in progress.
LoopAdd(m) ==
    /\ phase = "out"
    /\ Len(redis[ScenarioKey]) < MaxStored
    /\ redis' = AddToInbox(redis, ScenarioBus, ScenarioClient, m)
    /\ UNCHANGED <<last, phase, loopFrame>>

\* The message at the front of the sorted set, if there is one.
Front(zset) ==
    LET data == ZRangeFirst(zset)
    IN  IF data = <<>> THEN None ELSE deserialize(data[1])

\* The call starts: zrange(key, 0, 0); an empty inbox returns None.
LoopEnter(lastRead) ==
    /\ phase = "out"
    /\ last' = [NoCall EXCEPT !.op = "get_next_unread_message",
                              !.bus = ScenarioBus, !.client = ScenarioClient,
                              !.id = lastRead,
                              !.msg = Front(redis[ScenarioKey]),
                              !.held = Len(redis[ScenarioKey])]
    /\ phase' = IF redis[ScenarioKey] = <<>> THEN "out" ELSE "test"
    /\ UNCHANGED <<redis, loopFrame>>

\* while message.id == last_read_message_id: ...; return message
LoopTest ==
    /\ phase = "test"
    /\ IF last.msg.id = last.id
       THEN phase' = "remove" /\ last' = last
       ELSE phase' = "out" /\ last' = [last EXCEPT !.ret = last.msg]
    /\ UNCHANGED <<redis, loopFrame>>

\* The loop body: zrem of the message, zrange, return None if nothing is
\* left.
LoopRemove ==
    /\ phase = "remove"
    /\ last.passes <= MaxStored
    /\ LET rest == ZRem(redis[ScenarioKey], serialize(last.msg))
       IN  /\ redis' = [redis EXCEPT ![ScenarioKey] = rest]
           /\ last' = [last EXCEPT !.passes = @ + 1, !.msg = Front(rest)]
           /\ phase' = IF rest = <<>> THEN "out" ELSE "test"
    /\ UNCHANGED loopFrame

NextLoop ==
    \/ \E m \in Messages : LoopAdd(m)
    \/ \E n \in Cursors : LoopEnter(n)
    \/ LoopTest
    \/ LoopRemove

SpecLoop == InitLoop /\ [][NextLoop]_vars

\* The call runs on: a statement that can run does run.
SpecLoopFair == SpecLoop /\ WF_vars(LoopTest) /\ WF_vars(LoopRemove)

-----------------------------------------------------------------------------
(* StorageBackendFactory.  A configuration is the dictionary found under   *)
(* config['message_bus']['storage'] (a function on the keys it holds), or  *)
(* NoStorage for a config without that entry.  A backend instance is known *)
(* by the class it was built from, its constructor arguments and an object *)
(* identity that is new with every construction.                           *)

Absent == "<absent>"

FilePaths == {"/tmp/test1", "/tmp/test2"}
ConnectionStrings == {"redis://localhost:6379/0", "redis://localhost:6379/1"}

NoStorage == [no_storage |-> TRUE]

Configs ==
    {NoStorage, [other |-> "x"], [type |-> "unknown"], [type |-> "MEMORY"],
     [type |-> "FILE"], [type |-> "SQL"], [type |-> "REDIS"]}
    \cup {[type |-> "FILE", file_path |-> f] : f \in FilePaths}
    \cup {[type |-> "SQL", connection_string |-> c] : c \in ConnectionStrings}
    \cup {[type |-> "REDIS", connection_string |-> c] : c \in ConnectionStrings}
    \cup {[type |-> "REDIS", connection_string |-> c, fake_redis |-> f] :
             c \in ConnectionStrings, f \in BOOLEAN}

\* class StorageBackendType(str, Enum)
StorageBackendType == {"MEMORY", "FILE", "SQL", "REDIS"}

\* Variant of a raise that hands back the in-process backend instead.
FallBack(e) ==
    [class |-> "InMemoryStorage", arg |-> e, redis_class |-> "<absent>", oid |-> 0]

\* raise KeyError / raise ValueError
Raised(e) == [error |-> e]

\* return v
Returned(v) == [value |-> v]

IsError(r) == "error" \in DOMAIN r

Instance(class, arg, redisClass, oid) ==
    [class |-> class, arg |-> arg, redis_class |-> redisClass, oid |-> oid]

\* dict.get(key, default)
Get(d, key, default) == IF key \in DOMAIN d THEN d[key] ELSE default

\* "if store_key not in stores: stores[store_key] = <new>; return stores[store_key]"
Cached(cache, oid, key, new) ==
    IF key \in DOMAIN cache
    THEN [result |-> cache[key], stores |-> cache, nextOid |-> oid]
    ELSE [result |-> new, stores |-> cache @@ (key :> new), nextOid |-> oid + 1]

\* from_config: the outcome (an instance or the error raised), the cache and
\* the object counter it leaves.
FromConfigOutcome(config, cache, oid) ==
    LET fail(e) == [result |-> Raised(e), stores |-> cache, nextOid |-> oid]
    IN  IF config = NoStorage THEN fail("KeyError")
        ELSE IF "type" \notin DOMAIN config THEN fail("KeyError")
        ELSE IF config.type \notin StorageBackendType THEN fail("ValueError")
        ELSE IF config.type = "MEMORY"
        THEN Cached(cache, oid, "MEMORY",
                    Instance("InMemoryStorage", Absent, Absent, oid))
        ELSE IF config.type = "FILE"
        THEN IF "file_path" \notin DOMAIN config THEN fail("KeyError")
             ELSE Cached(cache, oid, "MEMORY" \o ":" \o config.file_path,
                         Instance("FileBasedStorage", config.file_path, Absent, oid))
        ELSE IF config.type = "SQL"
        THEN IF "connection_string" \notin DOMAIN config THEN fail("KeyError")
             ELSE [result |-> Instance("SQLStorage", config.connection_string,
                                       Absent, oid),
                   stores |-> cache, nextOid |-> oid + 1]
        ELSE IF "connection_string" \notin DOMAIN config THEN fail("KeyError")
             ELSE Cached(cache, oid, "REDIS" \o ":" \o config.connection_string,
                         Instance("RedisStorage", config.connection_string,
                                  IF Get(config, "fake_redis", FALSE)
                                  THEN "FakeStrictRedis" ELSE "StrictRedis",
                                  oid))

InitFactory ==
    /\ stores = <<>>
    /\ nextOid = 1
    /\ calls = <<>>
    /\ redis = EmptyRedis
    /\ last = NoCall
    /\ ScenarioIdle /\ EquivIdle
    /\ LaterIdle

FromConfig(config) ==
    /\ Len(calls) < MaxCalls
    /\ LET out == FromConfigOutcome(config, stores, nextOid)
       IN  /\ stores' = out.stores
           /\ nextOid' = out.nextOid
           /\ calls' = Append(calls, [config |-> config, result |-> out.result])
    /\ UNCHANGED <<later, redis, last, batch, cursor, reads, phase, mem, files, rows, rets>>

NextFactory == \E config \in Configs : FromConfig(config)

SpecFactory == InitFactory /\ [][NextFactory]_vars

-----------------------------------------------------------------------------
(* The three other backends, as the storage contract describes them: each  *)
(* keeps an inbox per (bus, client) in its own representation, orders it   *)
(* by message id, and reads by returning the lowest-ordered message after  *)
(* dropping the front entries whose id equals the cursor.                  *)

RECURSIVE InsertById(_, _)
InsertById(msgs, m) ==
    IF msgs = <<>> THEN <<m>>
    ELSE IF Head(msgs) = m THEN msgs
    ELSE IF m.id < Head(msgs).id THEN <<m>> \o msgs
    ELSE <<Head(msgs)>> \o InsertById(Tail(msgs), m)

RECURSIVE PopSkipping(_, _)
PopSkipping(msgs, lastRead) ==
    IF msgs = <<>> THEN [ret |-> None, rest |-> <<>>]
    ELSE IF Head(msgs).id = lastRead THEN PopSkipping(Tail(msgs), lastRead)
    ELSE [ret |-> Head(msgs), rest |-> msgs]

\* In-process map: (bus, client) -> the messages in id order.
MemCreateInbox(m, bus, client) ==
    IF <<bus, client>> \in DOMAIN m THEN m ELSE m @@ (<<bus, client>> :> <<>>)

MemAdd(m, bus, client, msg) ==
    [m EXCEPT ![<<bus, client>>] = InsertById(@, msg)]

MemGetNext(m, bus, client, lastRead) ==
    LET r == PopSkipping(m[<<bus, client>>], lastRead)
    IN  [ret |-> r.ret, store |-> [m EXCEPT ![<<bus, client>>] = r.rest]]

\* Files: one per inbox, holding the encoded messages; every mutation reads
\* the whole file and writes it back.
FileName(bus, client) == <<bus, client>>

ReadFile(fs, name) == [i \in DOMAIN fs[name] |-> deserialize(fs[name][i])]

WriteFile(fs, name, msgs) ==
    [fs EXCEPT ![name] = [i \in DOMAIN msgs |-> serialize(msgs[i])]]

FileCreateInbox(fs, bus, client) ==
    IF FileName(bus, client) \in DOMAIN fs THEN fs
    ELSE fs @@ (FileName(bus, client) :> <<>>)

FileAdd(fs, bus, client, msg) ==
    WriteFile(fs, FileName(bus, client),
              InsertById(ReadFile(fs, FileName(bus, client)), msg))

FileGetNext(fs, bus, client, lastRead) ==
    LET r == PopSkipping(ReadFile(fs, FileName(bus, client)), lastRead)
    IN  [ret |-> r.ret, store |-> WriteFile(fs, FileName(bus, client), r.rest)]

\* Relational table: one row per enqueued message.
Row(bus, client, msg) ==
    [bus |-> bus, client |-> client, id |-> msg.id, data |-> serialize(msg)]

InboxRows(table, bus, client) ==
    {r \in table : r.bus = bus /\ r.client = client}

SqlAdd(table, bus, client, msg) == table \cup {Row(bus, client, msg)}

RECURSIVE SqlGetNext(_, _, _, _)
SqlGetNext(table, bus, client, lastRead) ==
    LET inbox == InboxRows(table, bus, client)
    IN  IF inbox = {} THEN [ret |-> None, store |-> table]
        ELSE LET first == CHOOSE r \in inbox : \A q \in inbox : r.id <= q.id
             IN  IF first.id = lastRead
                 THEN SqlGetNext(table \ {first}, bus, client, lastRead)
                 ELSE [ret |-> deserialize(first.data), store |-> table]

-----------------------------------------------------------------------------
(* The four backends driven by one sequence of calls on one inbox:         *)
(* create_inbox, then add_message_to_inbox and get_next_unread_message in  *)
(* any order, each call applied to every backend.                          *)

InitEquiv ==
    /\ redis = EmptyRedis
    /\ mem = <<>>
    /\ files = <<>>
    /\ rows = {}
    /\ rets = <<>>
    /\ last = NoCall
    /\ phase = "new"
    /\ batch = {} /\ cursor = 0 /\ reads = <<>>
    /\ FactoryIdle
    /\ LaterIdle

EquivCreate ==
    /\ phase = "new"
    /\ phase' = "open"
    /\ mem' = MemCreateInbox(mem, ScenarioBus, ScenarioClient)
    /\ files' = FileCreateInbox(files, ScenarioBus, ScenarioClient)
    /\ UNCHANGED <<later, redis, rows, rets, last, batch, cursor, reads,
                   stores, nextOid, calls>>

EquivAdd(m) ==
    /\ phase = "open"
    /\ Len(redis[ScenarioKey]) < MaxBatch
    /\ \A x \in EntryMessages(redis[ScenarioKey]) : x.id = m.id => x = m
    /\ redis' = AddToInbox(redis, ScenarioBus, ScenarioClient, m)
    /\ mem' = MemAdd(mem, ScenarioBus, ScenarioClient, m)
    /\ files' = FileAdd(files, ScenarioBus, ScenarioClient, m)
    /\ rows' = SqlAdd(rows, ScenarioBus, ScenarioClient, m)
    /\ last' = [NoCall EXCEPT !.op = "add_message_to_inbox", !.bus = ScenarioBus,
                              !.client = ScenarioClient, !.msg = m,
                              !.held = Held(redis, {ScenarioKey})]
    /\ UNCHANGED <<later, rets, phase, batch, cursor, reads, stores, nextOid, calls>>

EquivGet(lastRead) ==
    /\ phase = "open"
    /\ LET r == GetNextUnread(redis[ScenarioKey], lastRead)
           m == MemGetNext(mem, ScenarioBus, ScenarioClient, lastRead)
           f == FileGetNext(files, ScenarioBus, ScenarioClient, lastRead)
           q == SqlGetNext(rows, ScenarioBus, ScenarioClient, lastRead)
       IN  /\ redis' = [redis EXCEPT ![ScenarioKey] = r.zset]
           /\ mem' = m.store
           /\ files' = f.store
           /\ rows' = q.store
           /\ rets' = [redis |-> r.ret, memory |-> m.ret, file |-> f.ret,
                       sql |-> q.ret]
           /\ last' = [NoCall EXCEPT !.op = "get_next_unread_message",
                                     !.bus = ScenarioBus, !.client = ScenarioClient,
                                     !.id = lastRead, !.ret = r.ret,
                                     !.held = Held(redis, {ScenarioKey})]
    /\ UNCHANGED <<later, phase, batch, cursor, reads, stores, nextOid, calls>>

NextEquiv ==
    \/ EquivCreate
    \/ \E i \in MintedIds : EquivAdd(Minted(i, "s1"))
    \/ \E n \in {0} \cup MintedIds : EquivGet(n)

SpecEquiv == InitEquiv /\ [][NextEquiv]_vars

-----------------------------------------------------------------------------
(* GemstoneGenerator: get_id(priority).  A call takes the generator's      *)
(* lock, reads the clock, takes the next sequence number of that           *)
(* millisecond (waiting for the clock to advance when the counter is       *)
(* used up), stores timestamp and sequence, releases the lock and returns  *)
(* the id.  The clock never runs backwards.                                *)

\* Variant without mutual exclusion.
NoLock(g, c) == TRUE

\* with self._lock:
CanAcquire(g, c) == g.lock = "free"

\* Variant that leaves the sequence counter where it is.
SameSequence(g, now) == IF now = g.last_timestamp THEN g.sequence ELSE 0

\* The sequence number of a call at time now.
NextSequence(g, now) == IF now = g.last_timestamp THEN g.sequence + 1 ELSE 0

InProgress == {c \in Callers : callers[c].pc # "idle"}

InitGenerator ==
    /\ GeneratorIdle /\ BusIdle
    /\ redis = EmptyRedis /\ last = NoCall
    /\ ScenarioIdle /\ EquivIdle /\ FactoryIdle
    /\ RegistryIdle

GetId(c, priority) ==
    /\ callers[c].pc = "idle"
    /\ Len(issued) + Cardinality(InProgress) < MaxIssued
    /\ callers' = [callers EXCEPT ![c] = [IdleCaller EXCEPT !.pc = "waiting",
                                                           !.priority = priority]]
    /\ UNCHANGED <<gen, clock, issued, storeVars, busVars, registryVars>>

Acquire(c) ==
    /\ callers[c].pc = "waiting"
    /\ CanAcquire(gen, c)
    /\ gen' = [gen EXCEPT !.lock = c]
    /\ callers' = [callers EXCEPT ![c].pc = "locked"]
    /\ UNCHANGED <<clock, issued, storeVars, busVars, registryVars>>

ReadClock(c) ==
    /\ callers[c].pc = "locked"
    /\ NextSequence(gen, clock) <= MaxSeq
    /\ callers' = [callers EXCEPT ![c].pc = "minting",
                                  ![c].timestamp = clock,
                                  ![c].sequence = NextSequence(gen, clock)]
    /\ UNCHANGED <<gen, clock, issued, storeVars, busVars, registryVars>>

Return(c) ==
    /\ callers[c].pc = "minting"
    /\ gen' = [last_timestamp |-> callers[c].timestamp,
               sequence |-> callers[c].sequence,
               lock |-> "free"]
    /\ issued' = Append(issued,
                        [caller |-> c,
                         priority |-> callers[c].priority,
                         timestamp |-> callers[c].timestamp,
                         id |-> ToInt(callers[c].priority, callers[c].timestamp,
                                      MachineId, callers[c].sequence)])
    /\ callers' = [callers EXCEPT ![c] = IdleCaller]
    /\ UNCHANGED <<clock, storeVars, busVars, registryVars>>

Tick ==
    /\ clock < MaxTime
    /\ clock' = clock + 1
    /\ UNCHANGED <<gen, callers, issued, storeVars, busVars, registryVars>>

NextGenerator ==
    \/ \E c \in Callers, p \in Priorities : GetId(c, p)
    \/ \E c \in Callers : Acquire(c)
    \/ \E c \in Callers : ReadClock(c)
    \/ \E c \in Callers : Return(c)
    \/ Tick

SpecGenerator == InitGenerator /\ [][NextGenerator]_vars

-----------------------------------------------------------------------------
(* EnsembleManager with its MessageBus, Clients and ensemble storage.      *)
(* One ensemble id and three member ids stand for the ids shortuuid hands  *)
(* out; a member id is never handed out twice.  The ensemble storage keeps *)
(* what was last written to it; the message-bus backend is a RedisStorage, *)
(* whose inboxes outlive the manager.  Every send_message happens in a     *)
(* millisecond of its own.                                                 *)

EnsembleId == "e1"
MemberSeq == <<"m1", "m2", "m3">>
MemberIds == Range(MemberSeq)

BusKeys == {InboxId(EnsembleId, m) : m \in MemberIds}
EmptyInboxes == [k \in BusKeys |-> <<>>]

\* EnsembleMap(ensemble, message_bus, clients={}); registered is the client
\* registry of the MessageBus.
NewEnsembleMap(members, message_bus) ==
    [members |-> members, message_bus |-> message_bus, clients |-> {},
     registered |-> {}]

\* _create_message_bus: a new MessageBus object at every call, told from the
\* one the manager holds for the id, if any, by its number.
CreateMessageBus(em, id) ==
    IF id \in DOMAIN em THEN em[id].message_bus + 1 ELSE 1

\* _add_to_ensembles: self.ensembles[ensemble.id] = emap
AddToEnsembles(em, id, emap) == (id :> emap) @@ em

\* CallbackClient after registration: the loop with its private cursor.
NewLoop == [state |-> "Registered", pc |-> "idle", cursor |-> 0, msg |-> None]

\* The members of an ensemble whose is_active flag is set.
ActiveMembers(e) == {m \in DOMAIN e.members : e.members[m]}

\* The members of a set in a fixed order.
AsList(S) == SelectSeq(MemberSeq, LAMBDA m : m \in S)

\* recipients: absent, or a list of one or two members, one of them naming
\* a member twice.
RecipientArgs ==
    Optional({AsList(S) : S \in SUBSET MemberIds \ {{}, MemberIds}}
                 \cup {<<MemberSeq[1], MemberSeq[1]>>})

\* priority: Priority = Priority.NORMAL
DefaultPriority == 1

\* Client.send_message: the recipients a message goes to.
Resolve(registered, sender, recipients) ==
    IF recipients = <<>> THEN AsList(registered \ {sender}) ELSE recipients[1]

\* Client.send_message: one copy into the inbox of every recipient.
RECURSIVE WriteCopies(_, _, _, _)
WriteCopies(db, bus, recipients, m) ==
    IF recipients = <<>> THEN db
    ELSE WriteCopies(AddToInbox(db, bus, Head(recipients), m), bus,
                     Tail(recipients), m)

\* EnsembleManager.send_message: the client of the sender is looked up and
\* its send_message called; the outcome is the message returned or the
\* error raised, the recipients written to and the inboxes left behind.  A
\* call that raises changes nothing.
SendOutcome(em, db, now, id, sender, recipients, priority) ==
    LET fail(e) == [result |-> Raised(e), resolved |-> <<>>, redis |-> db]
    IN  IF id \notin DOMAIN em THEN fail("EnsembleNotFoundError")
        ELSE IF sender \notin DOMAIN em[id].members
        THEN fail("EnsembleMemberNotFoundError")
        ELSE IF sender \notin em[id].clients THEN fail("KeyError")
        ELSE LET to == Resolve(em[id].registered, sender, recipients)
                 m == NewMessage(ToInt(priority, now, MachineId, 0), sender,
                                 "Hello!", recipients, <<>>, <<>>, <<>>)
             IN  [result |-> m, resolved |-> to,
                  redis |-> WriteCopies(db, id, to, m)]

\* What a call of the manager leaves behind: the value returned or the
\* error raised, the manager's dictionary, the ensemble storage, the inboxes
\* and the delivery loops.
Outcome(ret, em, st, db, lp) ==
    [ret |-> ret, ensembles |-> em, stored |-> st, redis |-> db, loops |-> lp]

\* EnsembleManager.create_ensemble, id being the id shortuuid hands out.
CreateEnsembleOutcome(em, st, db, lp, id) ==
    LET emap == NewEnsembleMap(<<>>, CreateMessageBus(em, id))
    IN  Outcome(Returned(emap), AddToEnsembles(em, id, emap),
                st @@ (id :> <<>>), db, lp)

\* load_ensemble without the look-up in self.ensembles.
LoadAfresh(em, st, db, lp, id) ==
    IF id \notin DOMAIN st
    THEN Outcome(Raised("EnsembleNotFoundError"), em, st, db, lp)
    ELSE LET emap == NewEnsembleMap(st[id], CreateMessageBus(em, id))
         IN  Outcome(Returned(emap), AddToEnsembles(em, id, emap), st, db, lp)

\* EnsembleManager.load_ensemble
LoadEnsembleOutcome(em, st, db, lp, id) ==
    IF id \in DOMAIN em THEN Outcome(Returned(em[id]), em, st, db, lp)
    ELSE IF id \notin DOMAIN st
    THEN Outcome(Raised("EnsembleNotFoundError"), em, st, db, lp)
    ELSE LET emap == NewEnsembleMap(st[id], CreateMessageBus(em, id))
         IN  Outcome(Returned(emap), AddToEnsembles(em, id, emap), st, db, lp)

\* EnsembleManager.get_ensemble
GetEnsembleOutcome(em, st, db, lp, id) ==
    IF id \in DOMAIN em THEN Outcome(Returned(em[id]), em, st, db, lp)
    ELSE Outcome(Raised("EnsembleNotFoundError"), em, st, db, lp)

\* EnsembleManager.create_ensemble_member, m being the id shortuuid hands
\* out: the member joins the ensemble, and the CallbackClient built for it
\* registers with the bus and starts its loop.
CreateEnsembleMemberOutcome(em, st, db, lp, id, m) ==
    IF id \notin DOMAIN em
    THEN Outcome(Raised("EnsembleNotFoundError"), em, st, db, lp)
    ELSE Outcome(Returned([member |-> m]),
                 [em EXCEPT ![id].members = @ @@ (m :> TRUE),
                            ![id].clients = @ \cup {m},
                            ![id].registered = @ \cup {m}],
                 st, db, lp @@ (m :> NewLoop))

\* deactivate_ensemble_member that leaves the client where it is.
DeactivateKeepingClient(em, st, db, lp, id, m) ==
    IF id \notin DOMAIN em
    THEN Outcome(Raised("EnsembleNotFoundError"), em, st, db, lp)
    ELSE IF m \notin DOMAIN em[id].members
    THEN Outcome(Raised("EnsembleMemberNotFoundError"), em, st, db, lp)
    ELSE IF ~em[id].members[m] THEN Outcome(Returned(None), em, st, db, lp)
    ELSE LET members == [em[id].members EXCEPT ![m] = FALSE]
         IN  Outcome(Returned(None), [em EXCEPT ![id].members = members],
                     IF id \in DOMAIN st THEN [st EXCEPT ![id] = members]
                     ELSE st,
                     db, lp)

\* EnsembleManager.deactivate_ensemble_member: for an active member, its
\* client, if the manager holds one, is unregistered from the bus and
\* dropped, the member is marked inactive and the ensemble is written to the
\* ensemble storage.
DeactivateOutcome(em, st, db, lp, id, m) ==
    IF id \notin DOMAIN em
    THEN Outcome(Raised("EnsembleNotFoundError"), em, st, db, lp)
    ELSE IF m \notin DOMAIN em[id].members
    THEN Outcome(Raised("EnsembleMemberNotFoundError"), em, st, db, lp)
    ELSE IF ~em[id].members[m] THEN Outcome(Returned(None), em, st, db, lp)
    ELSE LET hasClient == m \in em[id].clients
             members == [em[id].members EXCEPT ![m] = FALSE]
         IN  Outcome(Returned(None),
                     [em EXCEPT ![id].members = members,
                                ![id].clients = @ \ {m},
                                ![id].registered =
                                    IF hasClient THEN @ \ {m} ELSE @],
                     IF id \in DOMAIN st THEN [st EXCEPT ![id] = members]
                     ELSE st,
                     IF hasClient THEN DeleteInbox(db, id, m) ELSE db,
                     IF hasClient /\ m \in DOMAIN lp
                     THEN [lp EXCEPT ![m].state = "Unregistered"]
                     ELSE lp)

\* EnsembleManager.get_ensemble_member: the member and
\* ensemble_map.clients[member_id], which raises KeyError where the
\* manager holds no client for the member.
GetEnsembleMemberOutcome(em, st, db, lp, id, m) ==
    IF id \notin DOMAIN em
    THEN Outcome(Raised("EnsembleNotFoundError"), em, st, db, lp)
    ELSE IF m \notin DOMAIN em[id].members
    THEN Outcome(Raised("EnsembleMemberNotFoundError"), em, st, db, lp)
    ELSE IF m \notin em[id].clients
    THEN Outcome(Raised("KeyError"), em, st, db, lp)
    ELSE Outcome(Returned([member |-> m, client |-> m]), em, st, db, lp)

\* EnsembleManager.__init__: the dictionary is empty and no loop runs.
NewManagerOutcome(em, st, db, lp) == Outcome(Returned(None), <<>>, st, db, <<>>)

managerFrame == <<last, batch, cursor, reads, phase, mem, files, rows, rets,
                  stores, nextOid, calls, gen, callers, issued, registryVars>>

busFrame == <<managerFrame, mcall>>

InitManager ==
    /\ BusIdle
    /\ redis = EmptyInboxes
    /\ last = NoCall
    /\ GeneratorIdle
    /\ ScenarioIdle /\ EquivIdle /\ FactoryIdle
    /\ RegistryIdle

\* The manager's state after a call.
Becomes(out) ==
    /\ ensembles' = out.ensembles
    /\ stored' = out.stored
    /\ redis' = out.redis
    /\ loops' = out.loops

\* EnsembleManager.__init__ in a new process: the dictionaries are empty and
\* no delivery loop runs; the ensemble storage and the inboxes are as the
\* previous process left them.
NewManager ==
    /\ ensembles # <<>>
    /\ Becomes(NewManagerOutcome(ensembles, stored, redis, loops))
    /\ UNCHANGED <<nmembers, handled, sent, clock, busFrame>>

\* create_ensemble; shortuuid hands out an id no ensemble has.
CreateEnsemble ==
    /\ EnsembleId \notin DOMAIN stored
    /\ Becomes(CreateEnsembleOutcome(ensembles, stored, redis, loops,
                                     EnsembleId))
    /\ UNCHANGED <<nmembers, handled, sent, clock, busFrame>>

\* load_ensemble of a stored ensemble the manager does not hold; the other
\* calls leave everything as it is.
LoadEnsemble(id) ==
    /\ id \notin DOMAIN ensembles
    /\ id \in DOMAIN stored
    /\ Becomes(LoadEnsembleOutcome(ensembles, stored, redis, loops, id))
    /\ UNCHANGED <<nmembers, handled, sent, clock, busFrame>>

CreateEnsembleMember(id) ==
    /\ id \in DOMAIN ensembles
    /\ nmembers < Len(MemberSeq)
    /\ Becomes(CreateEnsembleMemberOutcome(ensembles, stored, redis, loops, id,
                                           MemberSeq[nmembers + 1]))
    /\ nmembers' = nmembers + 1
    /\ UNCHANGED <<handled, sent, clock, busFrame>>

\* deactivate_ensemble_member of an active member; the other calls leave
\* everything as it is.
DeactivateEnsembleMember(id, m) ==
    /\ id \in DOMAIN ensembles
    /\ m \in DOMAIN ensembles[id].members
    /\ ensembles[id].members[m]
    /\ Becomes(DeactivateOutcome(ensembles, stored, redis, loops, id, m))
    /\ UNCHANGED <<nmembers, handled, sent, clock, busFrame>>

SendMessage(id, sender, recipients, priority) ==
    /\ clock <= MaxSent
    /\ clock <= MaxTime
    /\ LET out == SendOutcome(ensembles, redis, clock, id, sender, recipients,
                              priority)
       IN  /\ ~IsError(out.result)
           /\ redis' = out.redis
           /\ sent' = [ensemble |-> id, sender |-> sender,
                       recipients |-> recipients, priority |-> priority,
                       result |-> out.result, resolved |-> out.resolved]
           /\ clock' = clock + 1
    /\ UNCHANGED <<stored, ensembles, nmembers, loops, handled, busFrame>>

NextManager ==
    \/ NewManager
    \/ CreateEnsemble
    \/ LoadEnsemble(EnsembleId)
    \/ CreateEnsembleMember(EnsembleId)
    \/ \E m \in MemberIds : DeactivateEnsembleMember(EnsembleId, m)
    \/ \E s \in MemberIds, r \in RecipientArgs :
          SendMessage(EnsembleId, s, r, DefaultPriority)

SpecManager == InitManager /\ [][NextManager]_vars

-----------------------------------------------------------------------------
(* EnsembleManager call by call.  Every call is taken with any argument,    *)
(* the calls that raise and the calls that change nothing included, and is *)
(* recorded with what it returned or raised.  One of the ensemble ids is   *)
(* known to nobody.                                                        *)

UnknownId == "e0"
ManagedIds == {EnsembleId, UnknownId}

NoManagerCall ==
    [op |-> "none", id |-> "", member |-> "", ret |-> Returned(None)]

ManagerCall(op, id, member, out) ==
    /\ Becomes(out)
    /\ mcall' = [op |-> op, id |-> id, member |-> member, ret |-> out.ret]

InitEnsembles ==
    /\ stored = <<>> /\ ensembles = <<>> /\ nmembers = 0
    /\ loops = <<>> /\ handled = <<>> /\ sent = <<>>
    /\ mcall = NoManagerCall
    /\ redis = EmptyInboxes
    /\ last = NoCall
    /\ GeneratorIdle
    /\ ScenarioIdle /\ EquivIdle /\ FactoryIdle
    /\ RegistryIdle

CallNewManager ==
    /\ ensembles # <<>>
    /\ ManagerCall("__init__", "", "",
                   NewManagerOutcome(ensembles, stored, redis, loops))
    /\ UNCHANGED <<nmembers, handled, sent, clock, managerFrame>>

CallCreateEnsemble ==
    /\ EnsembleId \notin DOMAIN stored
    /\ ManagerCall("create_ensemble", EnsembleId, "",
                   CreateEnsembleOutcome(ensembles, stored, redis, loops,
                                         EnsembleId))
    /\ UNCHANGED <<nmembers, handled, sent, clock, managerFrame>>

CallLoadEnsemble(id) ==
    /\ ManagerCall("load_ensemble", id, "",
                   LoadEnsembleOutcome(ensembles, stored, redis, loops, id))
    /\ UNCHANGED <<nmembers, handled, sent, clock, managerFrame>>

CallGetEnsemble(id) ==
    /\ ManagerCall("get_ensemble", id, "",
                   GetEnsembleOutcome(ensembles, stored, redis, loops, id))
    /\ UNCHANGED <<nmembers, handled, sent, clock, managerFrame>>

\* shortuuid hands out the next member id once get_ensemble has returned.
CallCreateEnsembleMember(id) ==
    /\ nmembers < Len(MemberSeq)
    /\ LET out == CreateEnsembleMemberOutcome(ensembles, stored, redis, loops,
                                              id, MemberSeq[nmembers + 1])
       IN  /\ ManagerCall("create_ensemble_member", id, "", out)
           /\ nmembers' = IF IsError(out.ret) THEN nmembers ELSE nmembers + 1
    /\ UNCHANGED <<handled, sent, clock, managerFrame>>

CallDeactivateEnsembleMember(id, m) ==
    /\ ManagerCall("deactivate_ensemble_member", id, m,
                   DeactivateOutcome(ensembles, stored, redis, loops, id, m))
    /\ UNCHANGED <<nmembers, handled, sent, clock, managerFrame>>

CallGetEnsembleMember(id, m) ==
    /\ ManagerCall("get_ensemble_member", id, m,
                   GetEnsembleMemberOutcome(ensembles, stored, redis, loops,
                                            id, m))
    /\ UNCHANGED <<nmembers, handled, sent, clock, managerFrame>>

NextEnsembles ==
    \/ CallNewManager
    \/ CallCreateEnsemble
    \/ \E id \in ManagedIds : CallLoadEnsemble(id)
    \/ \E id \in ManagedIds : CallGetEnsemble(id)
    \/ \E id \in ManagedIds : CallCreateEnsembleMember(id)
    \/ \E id \in ManagedIds : \E m \in MemberIds :
          CallDeactivateEnsembleMember(id, m)
    \/ \E id \in ManagedIds : \E m \in MemberIds :
          CallGetEnsembleMember(id, m)

SpecEnsembles == InitEnsembles /\ [][NextEnsembles]_vars

-----------------------------------------------------------------------------
(* CallbackClient: the delivery loop of a registered client.  A cycle is    *)
(* scheduled unless the client is unregistered; it polls the client's own  *)
(* inbox with the private cursor and, on a hit, invokes the handler, whose *)
(* failure is caught, and then moves the cursor to the delivered id.       *)
(* Here two members A and B of one ensemble have been created; messages    *)
(* are sent between them and either may be deactivated at any time.        *)

ClientA == MemberSeq[1]
ClientB == MemberSeq[2]
Delivering == {ClientA, ClientB}

HandlerOutcomes == {"ok", "raised"}

\* Variant in which a handler failure ends the loop.
StopOnFailure(loop, outcome) ==
    IF outcome = "raised"
    THEN [loop EXCEPT !.state = "Unregistered", !.pc = "idle", !.msg = None]
    ELSE [loop EXCEPT !.pc = "idle", !.cursor = loop.msg.id, !.msg = None]

\* The loop after the handler has returned or raised: the exception is
\* caught and the cursor moves to the id of the message.
AfterHandler(loop, outcome) ==
    [loop EXCEPT !.pc = "idle", !.cursor = loop.msg.id, !.msg = None]

InitDelivery ==
    /\ stored = (EnsembleId :> <<>>)
    /\ ensembles = (EnsembleId :>
                       [members |-> [m \in Delivering |-> TRUE],
                        message_bus |-> 1,
                        clients |-> Delivering,
                        registered |-> Delivering])
    /\ nmembers = Cardinality(Delivering)
    /\ loops = [m \in Delivering |-> NewLoop]
    /\ handled = <<>>
    /\ sent = <<>>
    /\ mcall = <<>>
    /\ redis = EmptyInboxes
    /\ last = NoCall
    /\ GeneratorIdle
    /\ ScenarioIdle /\ EquivIdle /\ FactoryIdle
    /\ RegistryIdle

\* Variant in which unregistration does not stop the scheduling of cycles.
AlwaysScheduled(loop) == TRUE

\* A further poll cycle is scheduled unless the client is unregistered.
Scheduled(loop) == loop.state # "Unregistered"

\* One poll of the loop of client c.
Poll(c) ==
    /\ c \in DOMAIN loops
    /\ Scheduled(loops[c])
    /\ loops[c].pc = "idle"
    /\ LET r == GetNextUnread(redis[InboxId(EnsembleId, c)], loops[c].cursor)
       IN  /\ redis' = [redis EXCEPT ![InboxId(EnsembleId, c)] = r.zset]
           /\ loops' = [loops EXCEPT
                           ![c].state = "Delivering",
                           ![c].pc = IF r.ret = None THEN "idle" ELSE "polled",
                           ![c].msg = r.ret]
    /\ UNCHANGED <<stored, ensembles, nmembers, handled, sent, clock, busFrame>>

\* The handler of client c runs on the message polled.
Handle(c, outcome) ==
    /\ c \in DOMAIN loops
    /\ loops[c].pc = "polled"
    /\ handled' = Append(handled, [client |-> c, msg |-> loops[c].msg,
                                   outcome |-> outcome])
    /\ loops' = [loops EXCEPT ![c] = AfterHandler(loops[c], outcome)]
    /\ UNCHANGED <<stored, ensembles, nmembers, sent, redis, clock, busFrame>>

NextDelivery ==
    \/ \E s \in Delivering : \E r \in Delivering \ {s} :
          SendMessage(EnsembleId, s, <<<<r>>>>, DefaultPriority)
    \/ \E m \in Delivering : DeactivateEnsembleMember(EnsembleId, m)
    \/ \E c \in Delivering : Poll(c)
    \/ \E c \in Delivering, o \in HandlerOutcomes : Handle(c, o)

SpecDelivery == InitDelivery /\ [][NextDelivery]_vars

\* Every loop keeps running: a poll or a handler that can run does run.
DeliveryFairness ==
    \A c \in Delivering :
        /\ WF_vars(Poll(c))
        /\ WF_vars(\E o \in HandlerOutcomes : Handle(c, o))

SpecDeliveryFair == SpecDelivery /\ DeliveryFairness

-----------------------------------------------------------------------------
(* The ensemble registry: Ensemble and EnsembleMember (ensemble/ensemble.py) *)
(* and the four EnsembleStorage backends (ensemble/storage).  An ensemble    *)
(* id is written as the sequence of its '.'-separated parts: <<"e1">> is     *)
(* "e1" and <<"e1", "b">> is "e1.b".                                         *)

FirstId == <<"e1">>
SecondId == <<"e1", "b">>
EnsembleIds == {FirstId, SecondId}
EnsembleNames == {"Test", "Duplicate"}
StoredMemberIds == {"member1", "member2"}

\* The values of EnsembleMember.is_active: a bool, or None where a backend
\* read no value for it.
Active == "True"
Inactive == "False"
Null == "None"

\* EnsembleMember(id, name, member_type, comms_type, endpoint, is_active)
EnsembleMember(id, name, member_type, comms_type, endpoint, is_active) ==
    [id |-> id, name |-> name, member_type |-> member_type,
     comms_type |-> comms_type, endpoint |-> endpoint, is_active |-> is_active]

TestMember(id, is_active) ==
    EnsembleMember(id, "Test Member", "bot", "http", "http://localhost",
                   is_active)

EnsembleMembers == {TestMember(m, a) : m \in StoredMemberIds,
                                      a \in {Active, Inactive}}

\* Ensemble(id, name, members); empty or missing members become {}.
Ensemble(id, name, members) == [id |-> id, name |-> name, members |-> members]

MemberMaps ==
    UNION {[S -> {Active, Inactive}] : S \in SUBSET StoredMemberIds}

\* The ensembles passed to the storage: the first id with any name and
\* members, the second without members.
Ensembles ==
    {Ensemble(FirstId, n, [m \in DOMAIN a |-> TestMember(m, a[m])]) :
        n \in EnsembleNames, a \in MemberMaps}
        \cup {Ensemble(SecondId, "Test", <<>>)}

\* An id and a list of ids are returned under a name of their own.
ReturnedId(id) == Returned([id |-> id])
ReturnedIds(bag) == Returned([ids |-> bag])

\* del d[key], and d.update(other)
Del(d, key) == [k \in DOMAIN d \ {key} |-> d[k]]
Update(d, other) == other @@ d

\* EnsembleEncoder: {"id", "name", "members": {m_id: asdict(m)}}
EnsembleEncoder(e) ==
    [json |-> [id |-> e.id, name |-> e.name,
               members |-> [k \in DOMAIN e.members |->
                               [f \in DOMAIN e.members[k] |-> e.members[k][f]]]]]

\* EnsembleDecoder: Ensemble(id, name, {m_id: EnsembleMember(**m_data)})
EnsembleDecoder(text) ==
    LET obj == text.json
    IN  Ensemble(obj.id, obj.name,
                 [k \in DOMAIN obj.members |->
                     EnsembleMember(obj.members[k].id, obj.members[k].name,
                                    obj.members[k].member_type,
                                    obj.members[k].comms_type,
                                    obj.members[k].endpoint,
                                    obj.members[k].is_active)])

(* InMemoryEnsembleStorage: self.ensembles, a dict id -> Ensemble *)

MemCreateEnsemble(d, e) ==
    IF e.id \in DOMAIN d
    THEN [store |-> d, ret |-> Raised("EnsembleIdAlreadyExists")]
    ELSE [store |-> (e.id :> e) @@ d, ret |-> ReturnedId(e.id)]

MemGetEnsemble(d, id) ==
    IF id \in DOMAIN d
    THEN [store |-> d, ret |-> Returned(d[id])]
    ELSE [store |-> d, ret |-> Raised("EnsembleNotFoundError")]

MemUpdateEnsemble(d, e) ==
    IF e.id \in DOMAIN d
    THEN [store |-> [d EXCEPT ![e.id] = e], ret |-> Returned(None)]
    ELSE [store |-> d, ret |-> Raised("EnsembleNotFoundError")]

MemDeleteEnsemble(d, id) ==
    IF id \in DOMAIN d
    THEN [store |-> Del(d, id), ret |-> Returned(None)]
    ELSE [store |-> d, ret |-> Raised("EnsembleNotFoundError")]

MemAddEnsembleMember(d, id, member) ==
    IF id \notin DOMAIN d
    THEN [store |-> d, ret |-> Raised("EnsembleNotFoundError")]
    ELSE [store |-> [d EXCEPT ![id].members = (member.id :> member) @@ @],
          ret |-> Returned(None)]

MemRemoveEnsembleMember(d, id, member_id) ==
    IF id \notin DOMAIN d
    THEN [store |-> d, ret |-> Raised("EnsembleNotFoundError")]
    ELSE IF member_id \notin DOMAIN d[id].members
    THEN [store |-> d, ret |-> Raised("EnsembleMemberNotFoundError")]
    ELSE [store |-> [d EXCEPT ![id].members = Del(@, member_id)],
          ret |-> Returned(None)]

MemListEnsembleIds(d) == [store |-> d, ret |-> ReturnedIds(SetToBag(DOMAIN d))]

MemCleanUp(d) == [store |-> <<>>, ret |-> Returned(None)]

(* FileEnsembleStorage: one file "<id>.json" per ensemble in the directory; *)
(* a file name is the sequence of its '.'-separated parts.                  *)

\* _get_ensemble_path: os.path.join(directory, f"{ensemble_id}.json")
GetEnsemblePath(id) == Append(id, "json")

FileCreateEnsemble(dir, e) ==
    LET path == GetEnsemblePath(e.id)
    IN  IF path \in DOMAIN dir
        THEN [store |-> dir, ret |-> Raised("EnsembleIdAlreadyExists")]
        ELSE [store |-> (path :> EnsembleEncoder(e)) @@ dir,
              ret |-> ReturnedId(e.id)]

FileGetEnsemble(dir, id) ==
    LET path == GetEnsemblePath(id)
    IN  IF path \notin DOMAIN dir
        THEN [store |-> dir, ret |-> Raised("EnsembleNotFoundError")]
        ELSE [store |-> dir, ret |-> Returned(EnsembleDecoder(dir[path]))]

FileUpdateEnsemble(dir, e) ==
    LET path == GetEnsemblePath(e.id)
    IN  IF path \notin DOMAIN dir
        THEN [store |-> dir, ret |-> Raised("EnsembleNotFoundError")]
        ELSE [store |-> [dir EXCEPT ![path] = EnsembleEncoder(e)],
              ret |-> Returned(None)]

FileDeleteEnsemble(dir, id) ==
    LET path == GetEnsemblePath(id)
    IN  IF path \notin DOMAIN dir
        THEN [store |-> dir, ret |-> Raised("EnsembleNotFoundError")]
        ELSE [store |-> Del(dir, path), ret |-> Returned(None)]

FileAddEnsembleMember(dir, id, member) ==
    LET got == FileGetEnsemble(dir, id)
    IN  IF IsError(got.ret) THEN got
        ELSE LET ensemble == got.ret.value
             IN  FileUpdateEnsemble(dir,
                     [ensemble EXCEPT !.members = (member.id :> member) @@ @])

FileRemoveEnsembleMember(dir, id, member_id) ==
    LET got == FileGetEnsemble(dir, id)
    IN  IF IsError(got.ret) THEN got
        ELSE LET ensemble == got.ret.value
             IN  IF member_id \notin DOMAIN ensemble.members
                 THEN [store |-> dir,
                       ret |-> Raised("EnsembleMemberNotFoundError")]
                 ELSE FileUpdateEnsemble(dir,
                         [ensemble EXCEPT !.members = Del(@, member_id)])

\* f.endswith('.json')
EndsWithJson(f) == Len(f) > 1 /\ f[Len(f)] = "json"

\* [f.split('.')[0] for f in os.listdir(directory) if f.endswith('.json')]
RECURSIVE SplitFirst(_)
SplitFirst(names) ==
    IF names = {} THEN EmptyBag
    ELSE LET f == CHOOSE x \in names : TRUE
         IN  SetToBag({<<f[1]>>}) (+) SplitFirst(names \ {f})

FileListEnsembleIds(dir) ==
    [store |-> dir,
     ret |-> ReturnedIds(SplitFirst({f \in DOMAIN dir : EndsWithJson(f)}))]

FileCleanUp(dir) == [store |-> <<>>, ret |-> Returned(None)]

(* RedisEnsembleStorage: one hash per ensemble under the key               *)
(* "ensemble:<id>", its field 'd' holding the serialized ensemble; a key   *)
(* is the pair of the prefix and the id.                                   *)

\* _get_ensemble_key: f"ensemble:{ensemble_id}"
GetEnsembleKey(id) == <<"ensemble:", id>>

\* hget(key, 'd'): None for a missing key
HGet(db, key) == IF key \in DOMAIN db THEN db[key].d ELSE None

\* hset(key, 'd', data)
HSet(db, key, data) == (key :> [d |-> data]) @@ db

\* Variant of create_ensemble that writes without looking for the key.
RedisCreateOverwrite(db, e) ==
    [store |-> HSet(db, GetEnsembleKey(e.id), EnsembleEncoder(e)),
     ret |-> ReturnedId(e.id)]

RedisCreateEnsemble(db, e) ==
    LET key == GetEnsembleKey(e.id)
    IN  IF HGet(db, key) # None
        THEN [store |-> db, ret |-> Raised("EnsembleIdAlreadyExists")]
        ELSE [store |-> HSet(db, key, EnsembleEncoder(e)),
              ret |-> ReturnedId(e.id)]

RedisGetEnsemble(db, id) ==
    LET data == HGet(db, GetEnsembleKey(id))
    IN  IF data = None
        THEN [store |-> db, ret |-> Raised("EnsembleNotFoundError")]
        ELSE [store |-> db, ret |-> Returned(EnsembleDecoder(data))]

\* update_ensemble: the stored members, updated with the members passed in.
Merged(current, members) ==
    IF DOMAIN current # {} THEN Update(current, members) ELSE members

RedisUpdateEnsemble(db, e) ==
    LET got == RedisGetEnsemble(db, e.id)
    IN  IF IsError(got.ret) THEN got
        ELSE LET new_members == Merged(got.ret.value.members, e.members)
             IN  [store |-> HSet(db, GetEnsembleKey(e.id),
                                 EnsembleEncoder([e EXCEPT
                                                     !.members = new_members])),
                  ret |-> Returned(None)]

RedisDeleteEnsemble(db, id) ==
    LET got == RedisGetEnsemble(db, id)
    IN  IF IsError(got.ret) THEN got
        ELSE [store |-> Del(db, GetEnsembleKey(id)), ret |-> Returned(None)]

RedisAddEnsembleMember(db, id, member) ==
    LET got == RedisGetEnsemble(db, id)
    IN  IF IsError(got.ret) THEN got
        ELSE LET ensemble == got.ret.value
             IN  RedisUpdateEnsemble(db,
                     [ensemble EXCEPT !.members = (member.id :> member) @@ @])

RedisRemoveEnsembleMember(db, id, member_id) ==
    LET got == RedisGetEnsemble(db, id)
    IN  IF IsError(got.ret) THEN got
        ELSE LET ensemble == got.ret.value
             IN  IF member_id \notin DOMAIN ensemble.members
                 THEN [store |-> db,
                       ret |-> Raised("EnsembleMemberNotFoundError")]
                 ELSE [store |-> HSet(db, GetEnsembleKey(id),
                                      EnsembleEncoder([ensemble EXCEPT
                                          !.members = Del(@, member_id)])),
                       ret |-> Returned(None)]

\* [key[9:] for key in redis.keys("ensemble:*")]
RedisListEnsembleIds(db) ==
    [store |-> db,
     ret |-> ReturnedIds(SetToBag({key[2] : key \in {k \in DOMAIN db :
                                                        k[1] = "ensemble:"}}))]

\* flushall()
RedisCleanUp(db) == [store |-> <<>>, ret |-> Returned(None)]

(* SqlEnsembleStorage: the table ensembles, id -> name, and the table      *)
(* ensemble_members with the primary key (id, ensemble_id).  Each method   *)
(* runs in one transaction, which is rolled back when it raises.  The      *)
(* class defines get_ensemble_ids but no list_ensemble_ids, which the      *)
(* abstract EnsembleStorage requires.                                      *)

NoTables == [ensembles |-> <<>>, ensemble_members |-> <<>>]

\* EnsembleMemberModel(id, name, member_type, comms_type, endpoint,
\*                     is_active, ensemble_id): the columns beside the key
MemberModel(member, is_active) ==
    [name |-> member.name, member_type |-> member.member_type,
     comms_type |-> member.comms_type, endpoint |-> member.endpoint,
     is_active |-> is_active]

MemberRows(t, id) == {k \in DOMAIN t.ensemble_members : k[2] = id}

\* session.add of one row for each member of the ensemble
InsertMembers(t, e) ==
    [k \in {<<m, e.id>> : m \in DOMAIN e.members} |->
        MemberModel(e.members[k[1]], e.members[k[1]].is_active)]

SqlCreateEnsemble(t, e) ==
    IF \/ e.id \in DOMAIN t.ensembles
       \/ \E m \in DOMAIN e.members : <<m, e.id>> \in DOMAIN t.ensemble_members
    THEN \* IntegrityError
         [store |-> t, ret |-> Raised("EnsembleIdAlreadyExists")]
    ELSE [store |-> [ensembles |-> (e.id :> e.name) @@ t.ensembles,
                     ensemble_members |->
                         InsertMembers(t, e) @@ t.ensemble_members],
          ret |-> ReturnedId(e.id)]

SqlGetEnsemble(t, id) ==
    IF id \notin DOMAIN t.ensembles
    THEN [store |-> t, ret |-> Raised("EnsembleNotFoundError")]
    ELSE [store |-> t,
          ret |-> Returned(Ensemble(id, t.ensembles[id],
                     [m \in {k[1] : k \in MemberRows(t, id)} |->
                         LET row == t.ensemble_members[<<m, id>>]
                         IN  EnsembleMember(m, row.name, row.member_type,
                                            row.comms_type, row.endpoint,
                                            row.is_active)]))]

\* update_ensemble: the name is set and each member passed in is updated
\* or inserted; no row is deleted.
SqlUpdateEnsemble(t, e) ==
    IF e.id \notin DOMAIN t.ensembles
    THEN [store |-> t, ret |-> Raised("EnsembleNotFoundError")]
    ELSE [store |-> [ensembles |-> [t.ensembles EXCEPT ![e.id] = e.name],
                     ensemble_members |->
                         InsertMembers(t, e) @@ t.ensemble_members],
          ret |-> Returned(None)]

\* delete_ensemble: session.delete(ensemble).  The relationship has no
\* delete cascade, so the flush sets ensemble_id of the member rows to
\* NULL; the column is part of their primary key and the flush fails.
SqlDeleteEnsemble(t, id) ==
    IF id \notin DOMAIN t.ensembles
    THEN [store |-> t, ret |-> Raised("EnsembleNotFoundError")]
    ELSE IF MemberRows(t, id) # {}
    THEN [store |-> t, ret |-> Raised("AssertionError")]
    ELSE [store |-> [t EXCEPT !.ensembles = Del(@, id)],
          ret |-> Returned(None)]

\* add_ensemble_member: the row is built without is_active.
AddedRow(member) == MemberModel(member, Null)

SqlAddEnsembleMember(t, id, member) ==
    IF id \notin DOMAIN t.ensembles
    THEN [store |-> t, ret |-> Raised("EnsembleNotFoundError")]
    ELSE IF <<member.id, id>> \in DOMAIN t.ensemble_members
    THEN [store |-> t, ret |-> Raised("IntegrityError")]
    ELSE [store |-> [t EXCEPT !.ensemble_members =
                                  (<<member.id, id>> :> AddedRow(member)) @@ @],
          ret |-> Returned(None)]

\* Variant of remove_ensemble_member that passes over a missing member.
SqlRemoveQuietly(t, id, member_id) ==
    IF id \notin DOMAIN t.ensembles
    THEN [store |-> t, ret |-> Raised("EnsembleNotFoundError")]
    ELSE [store |-> [t EXCEPT !.ensemble_members = Del(@, <<member_id, id>>)],
          ret |-> Returned(None)]

SqlRemoveEnsembleMember(t, id, member_id) ==
    IF id \notin DOMAIN t.ensembles
    THEN [store |-> t, ret |-> Raised("EnsembleNotFoundError")]
    ELSE IF <<member_id, id>> \notin DOMAIN t.ensemble_members
    THEN [store |-> t, ret |-> Raised("EnsembleMemberNotFoundError")]
    ELSE [store |-> [t EXCEPT !.ensemble_members = Del(@, <<member_id, id>>)],
          ret |-> Returned(None)]

\* list_ensemble_ids is not defined by the class: the abstract method of
\* EnsembleStorage is all there is, and with it the class has no instances.
SqlListEnsembleIds(t) == [store |-> t, ret |-> Raised("TypeError")]

SqlCleanUp(t) == [store |-> NoTables, ret |-> Returned(None)]

(* A storage of one of the four backends and the calls made on it. *)

Backends == {"memory", "file", "redis", "sql"}

\* The storage of backend b after construction.
NewStorage(b) ==
    [backend |-> b, store |-> IF b = "sql" THEN NoTables ELSE <<>>]

NoEnsembleCall ==
    [op |-> "none", ensemble |-> None, id |-> <<>>, member |-> None,
     member_id |-> "", ret |-> Returned(None)]

CreateEnsembleIn(b, s, e) ==
    CASE b = "memory" -> MemCreateEnsemble(s, e)
      [] b = "file" -> FileCreateEnsemble(s, e)
      [] b = "redis" -> RedisCreateEnsemble(s, e)
      [] b = "sql" -> SqlCreateEnsemble(s, e)

GetEnsembleIn(b, s, id) ==
    CASE b = "memory" -> MemGetEnsemble(s, id)
      [] b = "file" -> FileGetEnsemble(s, id)
      [] b = "redis" -> RedisGetEnsemble(s, id)
      [] b = "sql" -> SqlGetEnsemble(s, id)

UpdateEnsembleIn(b, s, e) ==
    CASE b = "memory" -> MemUpdateEnsemble(s, e)
      [] b = "file" -> FileUpdateEnsemble(s, e)
      [] b = "redis" -> RedisUpdateEnsemble(s, e)
      [] b = "sql" -> SqlUpdateEnsemble(s, e)

DeleteEnsembleIn(b, s, id) ==
    CASE b = "memory" -> MemDeleteEnsemble(s, id)
      [] b = "file" -> FileDeleteEnsemble(s, id)
      [] b = "redis" -> RedisDeleteEnsemble(s, id)
      [] b = "sql" -> SqlDeleteEnsemble(s, id)

AddEnsembleMemberIn(b, s, id, member) ==
    CASE b = "memory" -> MemAddEnsembleMember(s, id, member)
      [] b = "file" -> FileAddEnsembleMember(s, id, member)
      [] b = "redis" -> RedisAddEnsembleMember(s, id, member)
      [] b = "sql" -> SqlAddEnsembleMember(s, id, member)

RemoveEnsembleMemberIn(b, s, id, member_id) ==
    CASE b = "memory" -> MemRemoveEnsembleMember(s, id, member_id)
      [] b = "file" -> FileRemoveEnsembleMember(s, id, member_id)
      [] b = "redis" -> RedisRemoveEnsembleMember(s, id, member_id)
      [] b = "sql" -> SqlRemoveEnsembleMember(s, id, member_id)

ListEnsembleIdsIn(b, s) ==
    CASE b = "memory" -> MemListEnsembleIds(s)
      [] b = "file" -> FileListEnsembleIds(s)
      [] b = "redis" -> RedisListEnsembleIds(s)
      [] b = "sql" -> SqlListEnsembleIds(s)

CleanUpIn(b, s) ==
    CASE b = "memory" -> MemCleanUp(s)
      [] b = "file" -> FileCleanUp(s)
      [] b = "redis" -> RedisCleanUp(s)
      [] b = "sql" -> SqlCleanUp(s)

registryFrame == <<storeVars, genVars, busVars>>

InitRegistry ==
    /\ estorage \in {NewStorage(b) : b \in Backends}
    /\ ecall = NoEnsembleCall
    /\ redis = EmptyRedis /\ last = NoCall
    /\ ScenarioIdle /\ EquivIdle /\ FactoryIdle
    /\ GeneratorIdle /\ BusIdle

\* One call on the storage: out is what it leaves stored and what it
\* returns or raises.
EnsembleCall(call, out) ==
    /\ estorage' = [estorage EXCEPT !.store = out.store]
    /\ ecall' = [call EXCEPT !.ret = out.ret]
    /\ UNCHANGED registryFrame

StorageCreateEnsemble(e) ==
    EnsembleCall([NoEnsembleCall EXCEPT !.op = "create_ensemble", !.ensemble = e],
                 CreateEnsembleIn(estorage.backend, estorage.store, e))

StorageGetEnsemble(id) ==
    EnsembleCall([NoEnsembleCall EXCEPT !.op = "get_ensemble", !.id = id],
                 GetEnsembleIn(estorage.backend, estorage.store, id))

StorageUpdateEnsemble(e) ==
    EnsembleCall([NoEnsembleCall EXCEPT !.op = "update_ensemble", !.ensemble = e],
                 UpdateEnsembleIn(estorage.backend, estorage.store, e))

StorageDeleteEnsemble(id) ==
    EnsembleCall([NoEnsembleCall EXCEPT !.op = "delete_ensemble", !.id = id],
                 DeleteEnsembleIn(estorage.backend, estorage.store, id))

StorageAddEnsembleMember(id, member) ==
    EnsembleCall([NoEnsembleCall EXCEPT !.op = "add_ensemble_member",
                                        !.id = id, !.member = member],
                 AddEnsembleMemberIn(estorage.backend, estorage.store, id, member))

StorageRemoveEnsembleMember(id, member_id) ==
    EnsembleCall([NoEnsembleCall EXCEPT !.op = "remove_ensemble_member",
                                        !.id = id, !.member_id = member_id],
                 RemoveEnsembleMemberIn(estorage.backend, estorage.store, id, member_id))

StorageListEnsembleIds ==
    EnsembleCall([NoEnsembleCall EXCEPT !.op = "list_ensemble_ids"],
                 ListEnsembleIdsIn(estorage.backend, estorage.store))

StorageCleanUp ==
    EnsembleCall([NoEnsembleCall EXCEPT !.op = "clean_up"],
                 CleanUpIn(estorage.backend, estorage.store))

NextRegistry ==
    \/ \E e \in Ensembles : StorageCreateEnsemble(e)
    \/ \E id \in EnsembleIds : StorageGetEnsemble(id)
    \/ \E e \in Ensembles : StorageUpdateEnsemble(e)
    \/ \E id \in EnsembleIds : StorageDeleteEnsemble(id)
    \/ \E member \in EnsembleMembers :
          StorageAddEnsembleMember(FirstId, member)
    \/ \E member_id \in StoredMemberIds :
          StorageRemoveEnsembleMember(FirstId, member_id)
    \/ StorageListEnsembleIds
    \/ StorageCleanUp

SpecRegistry == InitRegistry /\ [][NextRegistry]_vars

-----------------------------------------------------------------------------
(* Two callers on one ensemble store, file or Redis, their calls taken      *)
(* statement by statement: every os.path.exists, file read, file write,     *)
(* hget and hset is a step of its own.  Each caller calls create_ensemble  *)
(* with an ensemble of its own under the same id and then                  *)
(* add_ensemble_member with a member of its own.                           *)

SharedBackends == {"file", "redis"}

\* The ensemble and the member a caller passes in.
OwnEnsemble(c) ==
    Ensemble(FirstId, IF c = "t1" THEN "Test" ELSE "Duplicate", <<>>)

OwnMember(c) ==
    TestMember(IF c = "t1" THEN "member1" ELSE "member2", Active)

\* A call that has not returned yet.
NotReturned == [pending |-> TRUE]

\* os.path.exists(path), or the test of hget(key, 'd')
Exists(b, s, id) ==
    IF b = "file" THEN GetEnsemblePath(id) \in DOMAIN s
    ELSE HGet(s, GetEnsembleKey(id)) # None

\* open(path, "w") with json.dump, or hset(key, 'd', data)
Write(b, s, e) ==
    IF b = "file" THEN (GetEnsemblePath(e.id) :> EnsembleEncoder(e)) @@ s
    ELSE HSet(s, GetEnsembleKey(e.id), EnsembleEncoder(e))

InitShared ==
    /\ estorage \in {NewStorage(b) : b \in SharedBackends}
    /\ ecall = [c \in Callers |->
                   [pc |-> "create", ensemble |-> OwnEnsemble(c),
                    created |-> NotReturned, added |-> NotReturned]]
    /\ redis = EmptyRedis /\ last = NoCall
    /\ ScenarioIdle /\ EquivIdle /\ FactoryIdle
    /\ GeneratorIdle /\ BusIdle

\* create_ensemble: the look for the id.
CreateLooksUp(c) ==
    /\ ecall[c].pc = "create"
    /\ ecall' = IF Exists(estorage.backend, estorage.store, FirstId)
                THEN [ecall EXCEPT
                         ![c].pc = "add",
                         ![c].created = Raised("EnsembleIdAlreadyExists")]
                ELSE [ecall EXCEPT ![c].pc = "create-write"]
    /\ UNCHANGED <<estorage, registryFrame>>

\* create_ensemble: the write and the return.
CreateWrites(c) ==
    /\ ecall[c].pc = "create-write"
    /\ estorage' = [estorage EXCEPT
                       !.store = Write(estorage.backend, @, ecall[c].ensemble)]
    /\ ecall' = [ecall EXCEPT ![c].pc = "add",
                              ![c].created = ReturnedId(FirstId)]
    /\ UNCHANGED registryFrame

\* add_ensemble_member: get_ensemble and ensemble.members[member.id] = member
AddGets(c) ==
    /\ ecall[c].pc = "add"
    /\ LET got == GetEnsembleIn(estorage.backend, estorage.store, FirstId).ret
       IN  ecall' = IF IsError(got)
                    THEN [ecall EXCEPT ![c].pc = "end", ![c].added = got]
                    ELSE [ecall EXCEPT
                             ![c].pc = "update",
                             ![c].ensemble =
                                 [got.value EXCEPT
                                     !.members = (OwnMember(c).id :> OwnMember(c))
                                                     @@ @]]
    /\ UNCHANGED <<estorage, registryFrame>>

\* update_ensemble up to its write: the file backend looks for the file,
\* the Redis backend reads the stored ensemble and merges the members.
UpdateLooksUp(c) ==
    /\ ecall[c].pc = "update"
    /\ LET got == GetEnsembleIn(estorage.backend, estorage.store, FirstId).ret
       IN  ecall' = IF IsError(got)
                    THEN [ecall EXCEPT ![c].pc = "end", ![c].added = got]
                    ELSE IF estorage.backend = "file"
                    THEN [ecall EXCEPT ![c].pc = "update-write"]
                    ELSE [ecall EXCEPT
                             ![c].pc = "update-write",
                             ![c].ensemble.members =
                                 Merged(got.value.members, @)]
    /\ UNCHANGED <<estorage, registryFrame>>

\* update_ensemble: the write; add_ensemble_member returns.
UpdateWrites(c) ==
    /\ ecall[c].pc = "update-write"
    /\ estorage' = [estorage EXCEPT
                       !.store = Write(estorage.backend, @, ecall[c].ensemble)]
    /\ ecall' = [ecall EXCEPT ![c].pc = "end", ![c].added = Returned(None)]
    /\ UNCHANGED registryFrame

NextShared ==
    \E c \in Callers :
        \/ CreateLooksUp(c)
        \/ CreateWrites(c)
        \/ AddGets(c)
        \/ UpdateLooksUp(c)
        \/ UpdateWrites(c)

SpecShared == InitShared /\ [][NextShared]_vars

-----------------------------------------------------------------------------
(* Two InMemoryEnsembleStorage objects constructed without arguments.  The  *)
(* dicts are objects of the heap: object 0 is the dict the default value   *)
(* of the parameter 'ensembles' was evaluated to when the class was        *)
(* defined, and an instance holds the number of the dict it refers to.     *)

Instances == {"a", "b"}

DefaultDict == 0

\* The numbers a dict made by clean_up can get: with the default dict, as
\* many as there are instances.
DictIds == 1..Cardinality(Instances)

\* The ensembles passed to the instances: either id under either name.
InstanceEnsembles ==
    {Ensemble(id, n, <<>>) : id \in EnsembleIds, n \in EnsembleNames}

\* A call on instance i.
InstanceCalled(op, i) ==
    [op |-> op, instance |-> i, ensemble |-> None, id |-> <<>>,
     ret |-> Returned(None)]

\* InMemoryEnsembleStorage(): self.ensembles = ensembles, the default.
InitInstances ==
    /\ estorage = [heap |-> (DefaultDict :> <<>>),
                   ref |-> [i \in Instances |-> DefaultDict]]
    /\ ecall = InstanceCalled("__init__", "b")
    /\ redis = EmptyRedis /\ last = NoCall
    /\ ScenarioIdle /\ EquivIdle /\ FactoryIdle
    /\ GeneratorIdle /\ BusIdle

\* self.ensembles of instance i
EnsemblesOf(st, i) == st.heap[st.ref[i]]

\* One call on instance i: out is what it leaves in the dict the instance
\* refers to and what it returns or raises.
InstanceCall(i, call, out) ==
    /\ estorage' = [estorage EXCEPT !.heap[estorage.ref[i]] = out.store]
    /\ ecall' = [call EXCEPT !.ret = out.ret]
    /\ UNCHANGED registryFrame

InstanceCreateEnsemble(i, e) ==
    InstanceCall(i, [InstanceCalled("create_ensemble", i) EXCEPT !.ensemble = e],
                 MemCreateEnsemble(EnsemblesOf(estorage, i), e))

InstanceGetEnsemble(i, id) ==
    InstanceCall(i, [InstanceCalled("get_ensemble", i) EXCEPT !.id = id],
                 MemGetEnsemble(EnsemblesOf(estorage, i), id))

InstanceUpdateEnsemble(i, e) ==
    InstanceCall(i, [InstanceCalled("update_ensemble", i) EXCEPT !.ensemble = e],
                 MemUpdateEnsemble(EnsemblesOf(estorage, i), e))

InstanceDeleteEnsemble(i, id) ==
    InstanceCall(i, [InstanceCalled("delete_ensemble", i) EXCEPT !.id = id],
                 MemDeleteEnsemble(EnsemblesOf(estorage, i), id))

\* clean_up: self.ensembles = {}, a new dict; the dict the instance
\* referred to is left as it is, and its number is free again once no
\* instance refers to it.
InstanceCleanUp(i) ==
    /\ LET used == {estorage.ref[j] : j \in Instances \ {i}}
           new == CHOOSE o \in DictIds : o \notin used
           live == used \cup {DefaultDict, new}
       IN  estorage' = [heap |-> [o \in live |->
                                     IF o = new THEN <<>> ELSE estorage.heap[o]],
                        ref |-> [estorage.ref EXCEPT ![i] = new]]
    /\ ecall' = InstanceCalled("clean_up", i)
    /\ UNCHANGED registryFrame

NextInstances ==
    \E i \in Instances :
        \/ \E e \in InstanceEnsembles : InstanceCreateEnsemble(i, e)
        \/ \E id \in EnsembleIds : InstanceGetEnsemble(i, id)
        \/ \E e \in InstanceEnsembles : InstanceUpdateEnsemble(i, e)
        \/ \E id \in EnsembleIds : InstanceDeleteEnsemble(i, id)
        \/ InstanceCleanUp(i)

SpecInstances == InitInstances /\ [][NextInstances]_vars

-----------------------------------------------------------------------------
(* Properties of the storage interface *)

Members(zset) == {zset[i].member : i \in DOMAIN zset}

\* The messages whose encoding an inbox holds.
Stored(zset) == {m \in Messages : serialize(m) \in Members(zset)}

Pairs == BusIds \X ClientIds

\* The (bus, client) pairs a call names.
TargetPairs(call) ==
    IF call.op = "remove_received_message"
    THEN {<<call.bus, r>> : r \in Range(call.recipients)}
    ELSE IF call.op = "none" THEN {}
    ELSE {<<call.bus, call.client>>}

\* What get_next_unread_message(bus, client, n) returns on database db.
ReadOf(db, bus, client, n) == GetNextUnread(Inbox(db, InboxId(bus, client)), n).ret

\* C1: get_next_unread_message returns the stored message with the lowest id
\* among those whose id differs from the cursor, as it was added, and returns
\* empty exactly when the inbox holds no message with another id.
C1_ReturnsLowestOther ==
    [][last'.op = "get_next_unread_message" =>
        LET inbox == Inbox(redis, InboxId(last'.bus, last'.client))
            cand == {m \in Stored(inbox) : m.id # last'.id}
        IN  /\ (last'.ret = None) <=> (cand = {})
            /\ cand # {} =>
                  /\ last'.ret \in cand
                  /\ \A m \in cand : last'.ret.id <= m.id]_vars

\* A read with a cursor that skipped the front entry and returned the next one.
C1_Witness ==
    /\ last.op = "get_next_unread_message"
    /\ last.id # 0
    /\ last.held = 2
    /\ last.ret # None
    /\ Len(redis[InboxId(last.bus, last.client)]) = 1

\* C4 as written: a stored message leaves its inbox only through
\* remove_received_message or remove_inbox, and none is changed.
C4_LeavesOnlyByRemoval ==
    [][\A k \in InboxKeys :
        /\ Members(redis[k]) \ Members(redis'[k]) # {} =>
              last'.op \in {"remove_received_message", "remove_inbox"}
        /\ \A i \in DOMAIN redis'[k] :
              \/ \E j \in DOMAIN redis[k] : redis'[k][i] = redis[k][j]
              \/ last'.op = "add_message_to_inbox"]_vars

\* C4 amended: a stored message leaves its inbox only through remove_inbox of
\* that inbox, remove_received_message naming its sender and id, or
\* get_next_unread_message on that inbox with a cursor equal to its id; an
\* entry that stays keeps its encoding and score, and a new entry is the
\* message an add_message_to_inbox call was given.
C4_LeavesByRemovalOrCursor ==
    [][\A k \in InboxKeys :
        /\ \A s \in Members(redis[k]) \ Members(redis'[k]) :
              /\ k \in TargetKeys(last')
              /\ \/ last'.op = "remove_inbox"
                 \/ /\ last'.op = "remove_received_message"
                    /\ deserialize(s).sender = last'.sender
                    /\ deserialize(s).id = last'.id
                 \/ /\ last'.op = "get_next_unread_message"
                    /\ deserialize(s).id = last'.id
        /\ \A i \in DOMAIN redis'[k] :
              \/ \E j \in DOMAIN redis[k] : redis'[k][i] = redis[k][j]
              \/ /\ last'.op = "add_message_to_inbox"
                 /\ k \in TargetKeys(last')
                 /\ redis'[k][i] = [member |-> serialize(last'.msg),
                                    score |-> last'.msg.id]]_vars

\* A read whose cursor removed an entry and left another one in the inbox.
C4_Witness ==
    /\ last.op = "get_next_unread_message"
    /\ last.held = 2
    /\ Len(redis[InboxId(last.bus, last.client)]) = 1

\* C5: after remove_inbox(b, c), get_next_unread_message(b, c, 0) returns
\* empty, whatever the inbox held.
C5_EmptyAfterRemoveInbox ==
    last.op = "remove_inbox" => ReadOf(redis, last.bus, last.client, 0) = None

\* remove_inbox has run on an inbox that held two messages.
C5_Witness ==
    /\ last.op = "remove_inbox"
    /\ last.held = 2

\* C6: remove_received_message removes from each listed recipient's inbox
\* exactly the message with the given sender and id; the other entries and
\* the other inboxes stay as they are, and an inbox that held only that
\* message then reads as empty with cursor 0.
C6_RemovesExactlyTheMessage ==
    [][last'.op = "remove_received_message" =>
        \A k \in InboxKeys :
            IF k \in TargetKeys(last')
            THEN LET gone == {m \in Stored(redis[k]) :
                                m.sender = last'.sender /\ m.id = last'.id}
                 IN  /\ Stored(redis'[k]) = Stored(redis[k]) \ gone
                     /\ Len(redis'[k]) = Cardinality(Stored(redis'[k]))
                     /\ (gone # {} /\ Stored(redis[k]) = gone) =>
                           GetNextUnread(redis'[k], 0).ret = None
            ELSE redis'[k] = redis[k]]_vars

\* remove_received_message has removed a message from an inbox that holds
\* another message with the same id, sent by somebody else.
C6_Witness ==
    /\ last.op = "remove_received_message"
    /\ Held(redis, TargetKeys(last)) = 1
    /\ last.held = 2
    /\ \E k \in TargetKeys(last) : \E m \in Stored(redis[k]) :
          m.id = last.id /\ m.sender # last.sender

\* C8: no call on one (bus, client) pair changes what a read of another pair
\* returns, whatever strings the ids are.
C8_InboxesIsolated ==
    [][\A p \in Pairs \ TargetPairs(last') : \A n \in Cursors :
          ReadOf(redis', p[1], p[2], n) = ReadOf(redis, p[1], p[2], n)]_vars

-----------------------------------------------------------------------------
(* Properties of the reader scenario *)

\* The messages of S in increasing id order.
RECURSIVE ById(_)
ById(S) ==
    IF S = {} THEN <<>>
    ELSE LET m == CHOOSE x \in S : \A y \in S : x.id <= y.id
         IN  <<m>> \o ById(S \ {m})

IsPrefix(p, q) == Len(p) <= Len(q) /\ \A i \in DOMAIN p : p[i] = q[i]

SamePriority(S) == \A x \in S, y \in S : PriorityOf(x.id) = PriorityOf(y.id)

\* C2: k messages of one priority, added to an empty inbox, come back from
\* k+1 chained reads in mint order, each once, followed by empty.
C2_ChainedReadsInMintOrder ==
    SamePriority(batch) =>
        /\ IsPrefix(reads, ById(batch) \o <<None>>)
        /\ phase = "done" => Len(reads) = Cardinality(batch) + 1

\* Three messages of one priority have been read and the fourth read was empty.
C2_Witness ==
    /\ SamePriority(batch)
    /\ Cardinality(batch) = 3
    /\ phase = "done"
    /\ Len(reads) = 4
    /\ reads[4] = None

\* C3: the place of a message in the inbox depends on its id alone: whatever
\* the order of the adds, the inbox holds the added messages in increasing
\* id order (priority first, then time) and the reads return them in it.
C3_OrderedByIdAlone ==
    /\ phase = "add" =>
          ZRangeAll(redis[ScenarioKey]) =
              [i \in 1..Len(redis[ScenarioKey]) |->
                  serialize(ById(EntryMessages(redis[ScenarioKey]))[i])]
    /\ phase = "read" /\ reads = <<>> =>
          ZRangeAll(redis[ScenarioKey]) =
              [i \in 1..Cardinality(batch) |-> serialize(ById(batch)[i])]
    /\ IsPrefix(reads, ById(batch) \o <<None>>)
    /\ \A i \in DOMAIN reads, j \in DOMAIN reads :
          (i < j /\ reads[j] # None) => reads[i].id < reads[j].id

\* Messages of two priorities have all been read, the urgent one first.
C3_Witness ==
    /\ ~SamePriority(batch)
    /\ Cardinality(batch) = 3
    /\ phase = "done"
    /\ PriorityOf(reads[1].id) < PriorityOf(reads[3].id)

-----------------------------------------------------------------------------
(* Properties of the factory *)

\* The class the factory is to build for a declared type.
ClassOf(type) ==
    CASE type = "MEMORY" -> "InMemoryStorage"
      [] type = "FILE" -> "FileBasedStorage"
      [] type = "SQL" -> "SQLStorage"
      [] type = "REDIS" -> "RedisStorage"

\* The declared type with the parameters of that engine: the file path, the
\* connection string, the fake-remote flag (off when left out).
Signature(config) ==
    CASE config.type = "MEMORY" -> <<"MEMORY">>
      [] config.type = "FILE" -> <<"FILE", config.file_path>>
      [] config.type = "SQL" -> <<"SQL", config.connection_string>>
      [] config.type = "REDIS" ->
            <<"REDIS", config.connection_string, Get(config, "fake_redis", FALSE)>>

Served == {i \in DOMAIN calls : ~IsError(calls[i].result)}

\* C9: two from_config calls with identical configuration return the same
\* backend instance, for each of the four engine types and whatever calls
\* happen in between.
C9_SameConfigSameInstance ==
    \A i \in Served, j \in Served :
        calls[i].config = calls[j].config => calls[i].result = calls[j].result

\* C10: from_config calls whose configurations differ in the engine type or
\* in an engine parameter return distinct instances, each of the class of
\* its declared type.
C10_DistinctConfigDistinctInstance ==
    \A i \in Served, j \in Served :
        /\ calls[i].result.class = ClassOf(calls[i].config.type)
        /\ Signature(calls[i].config) # Signature(calls[j].config) =>
              calls[i].result.oid # calls[j].result.oid

\* A configuration the factory cannot resolve: no storage entry, no type, a
\* type outside the four engines, or the parameter of its engine left out.
Unresolvable(config) ==
    \/ config = NoStorage
    \/ "type" \notin DOMAIN config
    \/ config.type \notin StorageBackendType
    \/ config.type = "FILE" /\ "file_path" \notin DOMAIN config
    \/ config.type \in {"SQL", "REDIS"} /\ "connection_string" \notin DOMAIN config

\* C11: from_config with an unknown type, without a type or without the
\* parameter its type requires raises an error, returns no backend, builds
\* none and leaves the instance cache as it was.
C11_BadConfigRaises ==
    [][\A config \in Configs :
          (Unresolvable(config)
             /\ Len(calls') = Len(calls) + 1
             /\ calls'[Len(calls')].config = config)
          => /\ IsError(calls'[Len(calls')].result)
             /\ stores' = stores
             /\ nextOid' = nextOid]_vars

\* A FILE configuration without file_path was refused while the cache held
\* an instance from an earlier call.
C11_Witness ==
    \E i \in DOMAIN calls :
        /\ i > 1
        /\ calls[i].config = [type |-> "FILE"]
        /\ IsError(calls[i].result)
        /\ ~IsError(calls[i - 1].result)
        /\ DOMAIN stores # {}

-----------------------------------------------------------------------------
(* Properties of the four backends side by side *)

-----------------------------------------------------------------------------
(* Properties of the id generator *)

\* C12: every id one generator mints with a more urgent priority is less
\* than every id it mints with a less urgent one, whatever the order of the
\* calls and the clock values at which they happen.
C12_UrgentIdsAreLess ==
    \A i \in DOMAIN issued, j \in DOMAIN issued :
        issued[i].priority < issued[j].priority => issued[i].id < issued[j].id

\* A less urgent id was minted first, at an earlier clock value, and a more
\* urgent one after it.
C12_Witness ==
    \E i \in DOMAIN issued, j \in DOMAIN issued :
        /\ i < j
        /\ issued[i].priority > issued[j].priority
        /\ issued[i].timestamp < issued[j].timestamp

C14_ConcurrentCallsDistinct ==
    \A i \in DOMAIN issued, j \in DOMAIN issued :
        (i # j /\ issued[i].caller # issued[j].caller) =>
            issued[i].id # issued[j].id

\* Two callers asked for the same priority in the same millisecond; one has
\* its id and the other waits for the lock the first has taken again.
C14_Witness ==
    \E c \in Callers, d \in Callers, i \in DOMAIN issued :
        /\ c # d
        /\ issued[i].caller = c
        /\ issued[i].timestamp = clock
        /\ callers[d].pc = "waiting"
        /\ callers[d].priority = issued[i].priority
        /\ gen.lock = c

-----------------------------------------------------------------------------
(* Properties of the message encoding *)

-----------------------------------------------------------------------------
(* Properties of send_message *)

MemberKey(m) == InboxId(EnsembleId, m)

\* The ids of the messages the inboxes hold.
StoredIds(db) == {x.id : x \in UNION {EntryMessages(db[k]) : k \in DOMAIN db}}

\* C16: send_message with an explicit recipient list R mints a new message,
\* writes exactly one copy of it into the inbox of each member of R, leaves
\* every other inbox as it was and returns that message (id, sender,
\* content, recipients, priority) without any delivery taking place.
C16_ExplicitRecipients ==
    [][(clock' # clock /\ sent'.recipients # <<>>) =>
          LET R == Range(sent'.recipients[1])
              m == sent'.result
          IN  /\ m.id \notin StoredIds(redis)
              /\ m.sender = sent'.sender
              /\ m.content = "Hello!"
              /\ m.recipients = sent'.recipients
              /\ m.priority = sent'.priority
              /\ \A r \in MemberIds :
                    IF r \in R
                    THEN /\ Len(redis'[MemberKey(r)]) = Len(redis[MemberKey(r)]) + 1
                         /\ EntryMessages(redis'[MemberKey(r)])
                               = EntryMessages(redis[MemberKey(r)]) \cup {m}
                    ELSE redis'[MemberKey(r)] = redis[MemberKey(r)]
              /\ handled' = handled
              /\ loops' = loops]_vars

\* A message sent to two members sits in both inboxes, one of which held
\* another message already; the third inbox is empty.
C16_Witness ==
    /\ DOMAIN sent # {}
    /\ sent.recipients = <<<<"m1", "m2">>>>
    /\ sent.result \in EntryMessages(redis[MemberKey("m1")])
    /\ sent.result \in EntryMessages(redis[MemberKey("m2")])
    /\ Len(redis[MemberKey("m1")]) = 2
    /\ Len(redis[MemberKey("m2")]) = 1
    /\ redis[MemberKey("m3")] = <<>>

\* C17: send_message with recipients absent writes the message into the
\* inbox of every other active member of the sender's ensemble and into no
\* other inbox: not the sender's, not a deactivated member's.
C17_BroadcastToActiveOthers ==
    [][(clock' # clock /\ sent'.recipients = <<>>) =>
          LET to == ActiveMembers(ensembles[sent'.ensemble]) \ {sent'.sender}
          IN  \A r \in MemberIds :
                 IF r \in to
                 THEN sent'.result \in EntryMessages(redis'[MemberKey(r)])
                 ELSE redis'[MemberKey(r)] = redis[MemberKey(r)]]_vars

-----------------------------------------------------------------------------
(* Properties of the delivery loops *)

\* How often the handler of client c was invoked with message m.
Invocations(c, m) ==
    Cardinality({i \in DOMAIN handled :
                    handled[i].client = c /\ handled[i].msg = m})

Registered(c) == c \in ensembles[EnsembleId].registered

\* The handler invocation a step starts, if it starts one.
Started == handled'[Len(handled')]

\* A has sent one message addressed to B, and nothing else has been sent.
OneFromAToB ==
    /\ DOMAIN sent # {}
    /\ clock = 2
    /\ sent.sender = ClientA
    /\ sent.recipients = <<<<ClientB>>>>

\* C18: with CallbackClients A and B registered on one bus, after A has sent
\* one message addressed to B, B's handler is eventually invoked with that
\* message, is never invoked a second time with it, and A's handler is not
\* invoked (as long as B stays registered and nothing else is sent).
C18_DeliveredOnceToB ==
    /\ [](OneFromAToB =>
            /\ Invocations(ClientB, sent.result) <= 1
            /\ \A i \in DOMAIN handled :
                  handled[i].client = ClientB /\ handled[i].msg = sent.result)
    /\ (OneFromAToB /\ Registered(ClientB))
          ~> (\/ ~OneFromAToB
              \/ ~Registered(ClientB)
              \/ Invocations(ClientB, sent.result) = 1)

\* B's handler has run on the message A sent, B's cursor is at its id and
\* B's loop has polled again, which emptied the inbox.
C18_Witness ==
    /\ OneFromAToB
    /\ Registered(ClientB)
    /\ Invocations(ClientB, sent.result) = 1
    /\ loops[ClientB].cursor = sent.result.id
    /\ redis[InboxId(EnsembleId, ClientB)] = <<>>

Pending(c) ==
    {x.id : x \in EntryMessages(redis[InboxId(EnsembleId, c)])}
        \ {handled[i].msg.id : i \in {j \in DOMAIN handled :
                                          handled[j].client = c}}

Failed(c) ==
    \E i \in DOMAIN handled :
        handled[i].client = c /\ handled[i].outcome = "raised"

\* C20: a handler failure on a message m leaves the loop of that client
\* running with its cursor at m's id and leaves the inboxes and the loops of
\* the other clients as they were; a message waiting for a registered client
\* stops waiting only by being given to its handler, and after a failure the
\* waiting messages of a client that stays registered are all delivered.
C20_FailureIsolated ==
    /\ [][(Len(handled') = Len(handled) + 1 /\ Started.outcome = "raised") =>
             /\ loops'[Started.client].cursor = Started.msg.id
             /\ loops'[Started.client].pc = "idle"
             /\ loops'[Started.client].state = loops[Started.client].state
             /\ \A d \in Delivering \ {Started.client} : loops'[d] = loops[d]
             /\ redis' = redis]_vars
    /\ [][\A c \in Delivering :
             (Registered(c))' =>
                 \A id \in Pending(c) \ (Pending(c))' :
                     /\ Len(handled') = Len(handled) + 1
                     /\ Started.client = c
                     /\ Started.msg.id = id]_vars
    /\ \A c \in Delivering :
          (Failed(c) /\ Pending(c) # {})
             ~> (Pending(c) = {} \/ ~Registered(c))

\* The handler of B failed on one message and was then given the message
\* sent after it.
C20_Witness ==
    /\ Len(handled) = 2
    /\ handled[1].client = ClientB
    /\ handled[1].outcome = "raised"
    /\ handled[2].client = ClientB
    /\ handled[2].msg.id > handled[1].msg.id
    /\ Registered(ClientB)

StateRank(state) ==
    CASE state = "Registered" -> 0
      [] state = "Delivering" -> 1
      [] state = "Unregistered" -> 2

\* C21: a CallbackClient moves only forward through Registered, Delivering,
\* Unregistered; once it is Unregistered it stays so, no poll of its inbox
\* takes a further message (only a handler already polled for may finish),
\* and it never returns to Delivering.
C21_ForwardOnly ==
    [][\A c \in Delivering :
          /\ StateRank(loops'[c].state) >= StateRank(loops[c].state)
          /\ loops[c].state = "Unregistered" =>
                /\ loops'[c].state = "Unregistered"
                /\ loops'[c].pc = "polled" => loops[c].pc = "polled"
                /\ loops'[c].msg # loops[c].msg => loops'[c].msg = None
                /\ Len(redis'[InboxId(EnsembleId, c)])
                      >= Len(redis[InboxId(EnsembleId, c)])
      ]_vars

\* B was delivering, has been unregistered, and a message sent to it since
\* lies in its inbox without being polled for.
C21_Witness ==
    /\ loops[ClientB].state = "Unregistered"
    /\ loops[ClientB].cursor > 0
    /\ loops[ClientB].pc = "idle"
    /\ ~Registered(ClientB)
    /\ redis[InboxId(EnsembleId, ClientB)] # <<>>

-----------------------------------------------------------------------------
(* Properties of the bus registry *)

\* The clients the bus of the ensemble has a record of.
OnBus(em) == IF EnsembleId \in DOMAIN em THEN em[EnsembleId].registered ELSE {}

\* C22: a step that registers a client leaves the client recorded in the bus
\* with its inbox in place; a step that unregisters a client leaves that
\* inbox without any message and the bus without a record of the client.
C22_RegisterAndUnregister ==
    [][(EnsembleId \in DOMAIN ensembles /\ EnsembleId \in DOMAIN ensembles') =>
          \A c \in MemberIds :
              /\ (c \notin OnBus(ensembles) /\ c \in ensembles'[EnsembleId].clients) =>
                    /\ c \in OnBus(ensembles')
                    /\ InboxId(EnsembleId, c) \in DOMAIN redis'
                    /\ redis'[InboxId(EnsembleId, c)] = redis[InboxId(EnsembleId, c)]
              /\ (c \in OnBus(ensembles) /\ c \notin ensembles'[EnsembleId].clients) =>
                    /\ c \notin OnBus(ensembles')
                    /\ EntryMessages(redis'[InboxId(EnsembleId, c)]) = {}
      ]_vars

\* A client with a message waiting in its inbox has just been unregistered.
C22_Witness ==
    /\ EnsembleId \in DOMAIN ensembles
    /\ \E c \in MemberIds :
          /\ c \in DOMAIN ensembles[EnsembleId].members
          /\ ~ensembles[EnsembleId].members[c]
          /\ c \notin OnBus(ensembles)
          /\ redis[InboxId(EnsembleId, c)] = <<>>
          /\ DOMAIN sent # {}
          /\ c \in {sent.resolved[i] : i \in DOMAIN sent.resolved}

-----------------------------------------------------------------------------
(* Properties of the ensemble storage backends *)

\* What get_ensemble(id) on the storage st returns or raises.
Got(st, id) == GetEnsembleIn(st.backend, st.store, id).ret

IsStored(st, id) == ~IsError(Got(st, id))

\* Two dicts with the same keys and the same value under each key.
SameDict(a, b) ==
    /\ Cardinality(DOMAIN a) = Cardinality(DOMAIN b)
    /\ \A k \in DOMAIN a : k \in DOMAIN b /\ a[k] = b[k]

\* Two outcomes of get_ensemble: the same error, or ensembles with the
\* same id, name and members.
SameOutcome(r, q) ==
    IF IsError(r) \/ IsError(q) THEN IsError(r) /\ IsError(q) /\ r.error = q.error
    ELSE /\ r.value.id = q.value.id
         /\ r.value.name = q.value.name
         /\ SameDict(r.value.members, q.value.members)

\* C23: create_ensemble with an id that is stored raises
\* EnsembleIdAlreadyExists, and get_ensemble of that id and of every other
\* id returns afterwards what it returned before.
C23_DuplicateIdRaises ==
    [][(ecall'.op = "create_ensemble" /\ IsStored(estorage, ecall'.ensemble.id)) =>
          /\ ecall'.ret = Raised("EnsembleIdAlreadyExists")
          /\ \A id \in EnsembleIds :
                SameOutcome(Got(estorage', id), Got(estorage, id))
      ]_vars

\* A create_ensemble with another name and other members than the stored
\* ensemble of that id has been refused by the relational backend.
C23_Witness ==
    /\ estorage.backend = "sql"
    /\ ecall.op = "create_ensemble"
    /\ ecall.ret = Raised("EnsembleIdAlreadyExists")
    /\ IsStored(estorage, ecall.ensemble.id)
    /\ Got(estorage, ecall.ensemble.id).value.name # ecall.ensemble.name
    /\ ~SameDict(Got(estorage, ecall.ensemble.id).value.members,
                 ecall.ensemble.members)

\* The id a call names.
CallId(call) ==
    IF call.op \in {"create_ensemble", "update_ensemble"}
    THEN call.ensemble.id ELSE call.id

C25_UpdateStoresTheEnsemble ==
    [][(ecall'.op = "update_ensemble" /\ IsStored(estorage, ecall'.ensemble.id)) =>
          /\ IsStored(estorage', ecall'.ensemble.id)
          /\ Got(estorage', ecall'.ensemble.id).value.name = ecall'.ensemble.name
          /\ SameDict(Got(estorage', ecall'.ensemble.id).value.members,
                      ecall'.ensemble.members)
      ]_vars

\* The ids get_ensemble finds.
StoredEnsembleIds(st) == {id \in EnsembleIds : IsStored(st, id)}

\* C26: list_ensemble_ids returns exactly the ids of the stored ensembles,
\* each once and unaltered.
C26_ListsTheStoredIds ==
    [][ecall'.op = "list_ensemble_ids" =>
          ecall'.ret = ReturnedIds(SetToBag(StoredEnsembleIds(estorage)))]_vars

C28_MissingMemberRaises ==
    [][(/\ ecall'.op = "remove_ensemble_member"
        /\ IsStored(estorage, ecall'.id)
        /\ ecall'.member_id \notin DOMAIN Got(estorage, ecall'.id).value.members) =>
          /\ ecall'.ret = Raised("EnsembleMemberNotFoundError")
          /\ SameOutcome(Got(estorage', ecall'.id), Got(estorage, ecall'.id))
      ]_vars

\* The relational backend has refused to remove a member the stored
\* ensemble does not have, while it has another one.
C28_Witness ==
    /\ estorage.backend = "sql"
    /\ ecall.op = "remove_ensemble_member"
    /\ ecall.ret = Raised("EnsembleMemberNotFoundError")
    /\ IsStored(estorage, ecall.id)
    /\ \A k \in StoredMemberIds \ {ecall.member_id} :
          k \in DOMAIN Got(estorage, ecall.id).value.members

-----------------------------------------------------------------------------
(* Properties of the EnsembleManager *)

\* C29: a manager keeps the MessageBus it holds for an ensemble id; a
\* load_ensemble or get_ensemble of an id the manager holds returns the
\* EnsembleMap held, with its bus and its clients, and leaves the dictionary
\* as it is; a load_ensemble of an id the storage does not know raises
\* EnsembleNotFoundError and adds no entry.
C29_OneBusPerEnsemble ==
    [][/\ mcall'.op # "__init__" =>
              \A id \in DOMAIN ensembles :
                  /\ id \in DOMAIN ensembles'
                  /\ ensembles'[id].message_bus = ensembles[id].message_bus
       /\ (/\ mcall'.op \in {"load_ensemble", "get_ensemble"}
           /\ mcall'.id \in DOMAIN ensembles) =>
              /\ mcall'.ret = Returned(ensembles[mcall'.id])
              /\ ensembles' = ensembles
       /\ (mcall'.op = "load_ensemble" /\ mcall'.id \notin DOMAIN stored) =>
              /\ mcall'.ret = Raised("EnsembleNotFoundError")
              /\ ensembles' = ensembles
      ]_vars

\* A load_ensemble has returned the map the manager held, clients included.
C29_Witness ==
    /\ mcall.op = "load_ensemble"
    /\ mcall.id \in DOMAIN ensembles
    /\ ensembles[mcall.id].clients # {}
    /\ mcall.ret = Returned(ensembles[mcall.id])

\* C30: deactivate_ensemble_member of an active member leaves it inactive
\* in the ensemble and in the ensemble storage, its client unregistered from
\* the bus and out of the clients map; of an inactive member it changes
\* nothing; of an id that is no member it raises EnsembleMemberNotFoundError
\* and changes nothing.
C30_Deactivate ==
    [][(/\ mcall'.op = "deactivate_ensemble_member"
        /\ mcall'.id \in DOMAIN ensembles) =>
          LET id == mcall'.id
              m == mcall'.member
              before == ensembles[id]
              after == ensembles'[id]
              same == /\ ensembles' = ensembles /\ stored' = stored
                      /\ redis' = redis /\ loops' = loops
          IN  IF m \notin DOMAIN before.members
              THEN mcall'.ret = Raised("EnsembleMemberNotFoundError") /\ same
              ELSE IF ~before.members[m]
              THEN mcall'.ret = Returned(None) /\ same
              ELSE /\ mcall'.ret = Returned(None)
                   /\ ~after.members[m]
                   /\ m \in DOMAIN stored'[id] /\ ~stored'[id][m]
                   /\ m \notin after.clients
                   /\ m \notin after.registered
                   /\ m \in DOMAIN loops => loops'[m].state = "Unregistered"
      ]_vars

\* An active member with a client has been deactivated.
C30_Witness ==
    /\ mcall.op = "deactivate_ensemble_member"
    /\ mcall.id \in DOMAIN ensembles
    /\ mcall.member \in DOMAIN loops
    /\ loops[mcall.member].state = "Unregistered"
    /\ ~ensembles[mcall.id].members[mcall.member]
    /\ ~stored[mcall.id][mcall.member]
    /\ \E other \in ensembles[mcall.id].clients : TRUE

-----------------------------------------------------------------------------
(* Properties of reads that interleave with arrivals *)

\* C31: a reader that passes the id of the message it received last never
\* receives a message twice, whatever is added between its reads.
C31_NeverTwice ==
    \A i, j \in DOMAIN reads : i # j => reads[i] # reads[j]

\* C32: get_next_unread_message removes from the inbox it reads only
\* entries whose id equals the cursor and touches no other inbox; when the
\* front entry has another id the call returns it and leaves the inbox as
\* it is, so the same call made again returns the same message.
C32_RemovesOnlyAtCursor ==
    [][last'.op = "get_next_unread_message" =>
          LET key == InboxId(last'.bus, last'.client)
              before == redis[key]
              after == redis'[key]
              kept == {after[i] : i \in DOMAIN after}
          IN  /\ \A k \in DOMAIN redis \ {key} : redis'[k] = redis[k]
              /\ \A i \in DOMAIN before :
                     before[i] \notin kept =>
                         deserialize(before[i].member).id = last'.id
              /\ kept \subseteq {before[i] : i \in DOMAIN before}
              /\ (before # <<>> /\ deserialize(before[1].member).id # last'.id) =>
                     /\ after = before
                     /\ last'.ret = deserialize(before[1].member)
                     /\ GetNextUnread(after, last'.id).ret = last'.ret
      ]_vars

\* A read with the sentinel cursor has returned the front entry of an inbox
\* of two entries and left both in place.
C32_Witness ==
    /\ last.op = "get_next_unread_message"
    /\ last.id = 0
    /\ last.held = 2
    /\ Len(redis[InboxId(last.bus, last.client)]) = 2
    /\ last.ret = deserialize(redis[InboxId(last.bus, last.client)][1].member)

\* C33: get_next_unread_message returns, whatever the inbox holds and
\* whatever the cursor is, and its loop makes at most one pass for every
\* entry the inbox held when the call started.
C33_Terminates ==
    /\ [](last.passes <= last.held)
    /\ (phase # "out") ~> (phase = "out")

\* A call has removed two entries with the id of the cursor and returned.
C33_Witness ==
    /\ phase = "out"
    /\ last.op = "get_next_unread_message"
    /\ last.held = 2
    /\ last.passes = 2

-----------------------------------------------------------------------------
(* Properties of inboxes and delivery loops, continued *)

\* C34: the inbox of a client that has been unregistered holds no message,
\* whatever is sent and however the sends interleave with the
\* unregistration.
C34_UnregisteredInboxEmpty ==
    \A c \in Delivering :
        loops[c].state = "Unregistered" => redis[InboxId(EnsembleId, c)] = <<>>

\* The messages delivered to client c that its inbox still holds.
DeliveredHeld(c) ==
    {handled[i].msg : i \in {j \in DOMAIN handled : handled[j].client = c}}
        \cap EntryMessages(redis[InboxId(EnsembleId, c)])

\* C35: while a client stays registered, every message delivered to it is
\* removed from its inbox in the end, and once nothing more is sent the
\* inbox is empty and stays so.
C35_DeliveredAreRemoved ==
    \A c \in Delivering :
        /\ (DeliveredHeld(c) # {}) ~>
               (DeliveredHeld(c) = {} \/ loops[c].state = "Unregistered")
        /\ <>[](\/ loops[c].state = "Unregistered"
                \/ redis[InboxId(EnsembleId, c)] = <<>>)

\* The message delivered to B has left B's inbox, where B is registered.
C35_Witness ==
    /\ loops[ClientB].state = "Delivering"
    /\ \E i \in DOMAIN handled :
          /\ handled[i].client = ClientB
          /\ loops[ClientB].cursor = handled[i].msg.id
    /\ redis[InboxId(EnsembleId, ClientB)] = <<>>

-----------------------------------------------------------------------------
(* Properties of two callers on one ensemble store *)

\* The callers whose create_ensemble returned the id.
Creators == {c \in Callers : ecall[c].created = ReturnedId(FirstId)}

\* C36: of two create_ensemble calls for one id, however they interleave,
\* exactly one returns and the other raises EnsembleIdAlreadyExists.
C36_OneCreateSucceeds ==
    (\A c \in Callers : ecall[c].created # NotReturned) =>
        /\ Cardinality(Creators) = 1
        /\ \A c \in Callers \ Creators :
               ecall[c].created = Raised("EnsembleIdAlreadyExists")

\* C37: after two add_ensemble_member calls for different members of one
\* ensemble, however they interleave, get_ensemble returns an ensemble
\* with both members.
C37_BothMembersStored ==
    (\A c \in Callers : ecall[c].added = Returned(None)) =>
        \A c \in Callers :
            OwnMember(c).id \in DOMAIN Got(estorage, FirstId).value.members

-----------------------------------------------------------------------------
(* Properties of the members an EnsembleManager holds *)

\* C39: get_ensemble_member returns the member with its client or raises
\* EnsembleNotFoundError or EnsembleMemberNotFoundError, and no other
\* error, whatever calls came before it.
C39_MemberHasClient ==
    mcall.op = "get_ensemble_member" =>
        \/ "value" \in DOMAIN mcall.ret
        \/ mcall.ret \in {Raised("EnsembleNotFoundError"),
                          Raised("EnsembleMemberNotFoundError")}

\* C40: once create_ensemble_member has returned, the ensemble the storage
\* holds has the new member.
C40_NewMemberStored ==
    (mcall.op = "create_ensemble_member" /\ "value" \in DOMAIN mcall.ret) =>
        /\ mcall.id \in DOMAIN stored
        /\ mcall.ret.value.member \in DOMAIN stored[mcall.id]

-----------------------------------------------------------------------------
(* Properties of two in-memory ensemble storages *)

\* C38: what one InMemoryEnsembleStorage holds is not changed by a call on
\* another one, both having been constructed without arguments.
C38_InstancesIndependent ==
    [][\A i \in Instances :
          ecall'.instance # i =>
              EnsemblesOf(estorage', i) = EnsemblesOf(estorage, i)
      ]_vars

====
